---------------------------- MODULE Spec2Model ----------------------------
(***************************************************************************)
(* A model of the Gleam formatter, compiler-core/src/format.rs.            *)
(*                                                                         *)
(* The text of a numeric literal is a sequence of one-character strings,   *)
(* the text of a name or of a module path a sequence of byte values.       *)
(* Source offsets are natural numbers.  A document is a sequence of        *)
(* tokens: a text token, or the hard breaks line() and lines(2).  A method *)
(* of the formatter is an operator that gives [self, ret]: the formatter   *)
(* after the call and the value returned.                                  *)
(***************************************************************************)
EXTENDS Integers, Sequences, FiniteSets, TLC

VARIABLES
    num,    \* the numeric-literal formatter: literal, kind, result, pc
    cur,    \* a formatter whose cursor is popped with arbitrary limits
    fmt,    \* the formatter inside module(): source, cursor, documents, pc
    imp,    \* the formatter on one import: the import, its document, pc
    stm,    \* the formatter inside statements(): cursor, statements, documents
    prt,    \* a call of pretty(): path, src, writer, result, pc
    box,    \* the formatter on one container: cursor, items, document, pc
    cap,    \* the formatter on one function capture: capture, document, pc
    prb     \* the formatter asked about a source's newlines, commas and items

vars == <<num, cur, fmt, imp, stm, prt, box, cap, prb>>

(***************************************************************************)
(* Bounds of the model.                                                    *)
(***************************************************************************)
\* digits of a decimal integer literal
MaxDigits == 7
\* digits of the integer part of a float literal
MaxFloatInt == 5
\* digits of the fractional part of a float literal
MaxFrac == 4
\* the largest source offset of the extras popped with arbitrary limits
MaxOffset == 3
\* lines of a source module
MaxLines == 4
\* bytes of the module path of an import
MaxPath == 3
\* bytes of the alias of an import
MaxAlias == 2
\* slots of a block: each holds a statement, a comment, a blank line or nothing
MaxSlots == 4

(***************************************************************************)
(* Text helpers (str methods of the standard library).                     *)
(***************************************************************************)
Reverse(s) == [i \in 1..Len(s) |-> s[Len(s) + 1 - i]]

Count(s, ch) == Cardinality({i \in DOMAIN s : s[i] = ch})

StartsWith(s, p) == Len(s) >= Len(p) /\ SubSeq(s, 1, Len(p)) = p

\* the 1-based index of the first ch in s, Len(s) + 1 when there is none
Position(s, ch) ==
    IF \E i \in DOMAIN s : s[i] = ch
    THEN CHOOSE i \in DOMAIN s : s[i] = ch /\ \A k \in 1..(i - 1) : s[k] # ch
    ELSE Len(s) + 1

\* a trim that removes one trailing ch only
TrimEndOnce(s, ch) ==
    IF s # <<>> /\ s[Len(s)] = ch THEN SubSeq(s, 1, Len(s) - 1) ELSE s

\* str::trim_end_matches(ch)
RECURSIVE TrimEndMatches(_, _)
TrimEndMatches(s, ch) ==
    IF Len(s) > 0 /\ s[Len(s)] = ch
    THEN TrimEndMatches(SubSeq(s, 1, Len(s) - 1), ch)
    ELSE s

(***************************************************************************)
(* Formatter::underscore_integer_string, Formatter::int, Formatter::float  *)
(***************************************************************************)
\* the threshold without the sign's extra character
reformat_watershed_unsigned(value) == 5

reformat_watershed(value) == IF StartsWith(value, <<"-">>) THEN 6 ELSE 5

\* an underscore is pushed in front of every digit, the sign included
pushes_underscore_before_sign(insert_underscores, i, ch, len, j) ==
    insert_underscores /\ i # 0 /\ i < len /\ j % 3 = 0

pushes_underscore(insert_underscores, i, ch, len, j) ==
    insert_underscores /\ i # 0 /\ ch # "-" /\ i < len /\ j % 3 = 0

\* the loop over value.chars().rev().enumerate(); i is 0-based
RECURSIVE UnderscoreLoop(_, _, _, _, _, _)
UnderscoreLoop(rev, i, j, len, insert_underscores, new_value) ==
    IF i >= Len(rev) THEN new_value
    ELSE LET ch == rev[i + 1] IN
         IF ch = "_"
         THEN UnderscoreLoop(rev, i + 1, j, len, insert_underscores, new_value)
         ELSE UnderscoreLoop(rev, i + 1, j + 1, len, insert_underscores,
                 IF pushes_underscore(insert_underscores, i, ch, len, j)
                 THEN new_value \o <<"_", ch>>
                 ELSE Append(new_value, ch))

\* underscores are inserted only into a literal written without any
underscore_integer_string_unless_written(value) ==
    LET len == Len(value)
        underscore_ch_cnt == Count(value, "_")
        insert_underscores ==
            underscore_ch_cnt = 0 /\ len >= reformat_watershed(value)
    IN  Reverse(UnderscoreLoop(Reverse(value), 0, 0, len, insert_underscores, <<>>))

underscore_integer_string(value) ==
    LET len == Len(value)
        underscore_ch_cnt == Count(value, "_")
        insert_underscores == (len - underscore_ch_cnt) >= reformat_watershed(value)
    IN  Reverse(UnderscoreLoop(Reverse(value), 0, 0, len, insert_underscores, <<>>))

int(value) ==
    IF \/ StartsWith(value, <<"0", "x">>)
       \/ StartsWith(value, <<"0", "b">>)
       \/ StartsWith(value, <<"0", "o">>)
    THEN value
    ELSE underscore_integer_string(value)

float(value) ==
    LET dot == Position(value, ".")
        integer_part == SubSeq(value, 1, dot - 1)
        after == SubSeq(value, dot + 1, Len(value))
        \* parts.next(): up to the next '.', if any
        fp_part == SubSeq(after, 1, Position(after, ".") - 1)
        e == Position(fp_part, "e")
        fp_part_scientific == SubSeq(fp_part, e, Len(fp_part))
        trimmed == TrimEndMatches(SubSeq(fp_part, 1, e - 1), "0")
        fp_part_fractional == IF trimmed = <<>> THEN <<"0">> ELSE trimmed
    IN  underscore_integer_string(integer_part)
            \o <<".">> \o fp_part_fractional \o fp_part_scientific

(***************************************************************************)
(* Documents (the pretty module): a sequence of tokens.                    *)
(***************************************************************************)
nil == <<>>

lines(n) == <<[t |-> "line", n |-> n]>>

line == lines(1)

CommentText(c) == <<[t |-> "//", c |-> c]>>

DocCommentText(c) == <<[t |-> "///", c |-> c]>>

ModuleCommentText(c) == <<[t |-> "////", c |-> c]>>

is_empty(doc) == doc = <<>>

RECURSIVE concat(_)
concat(docs) == IF docs = <<>> THEN <<>> ELSE Head(docs) \o concat(Tail(docs))

RECURSIVE join(_, _)
join(docs, separator) ==
    IF docs = <<>> THEN <<>>
    ELSE IF Len(docs) = 1 THEN Head(docs)
    ELSE Head(docs) \o separator \o join(Tail(docs), separator)

\* the contents of the `//` comments of a document, in order
CommentsOf(doc) ==
    LET cs == SelectSeq(doc, LAMBDA tok : tok.t = "//")
    IN  [i \in 1..Len(cs) |-> cs[i].c]

(***************************************************************************)
(* The cursor of unconsumed extras: comments_before and the pop methods.   *)
(* An Option is <<>> (None) or <<v>> (Some(v)); a popped entry is          *)
(* [start, comment], its comment None for a blank line.                    *)
(***************************************************************************)
None == <<>>

Some(v) == <<v>>

\* Iterator::position(|c| c.start > limit).unwrap_or(len), for comments
RECURSIVE end_comments(_, _)
end_comments(comments, limit) ==
    IF comments = <<>> \/ Head(comments).start > limit THEN 0
    ELSE 1 + end_comments(Tail(comments), limit)

\* Iterator::position(|l| *l > limit).unwrap_or(len), for offsets
RECURSIVE end_empty_lines(_, _)
end_empty_lines(empty_lines, limit) ==
    IF empty_lines = <<>> \/ Head(empty_lines) > limit THEN 0
    ELSE 1 + end_empty_lines(Tail(empty_lines), limit)

\* coalesce: a run of consecutive offsets becomes its first offset
RECURSIVE coalesce(_)
coalesce(offsets) ==
    IF Len(offsets) <= 1 THEN offsets
    ELSE IF offsets[1] + 1 = offsets[2]
         THEN <<offsets[1]>> \o Tail(coalesce(Tail(offsets)))
         ELSE <<offsets[1]>> \o coalesce(Tail(offsets))

\* Itertools::merge_by(|(a, _), (b, _)| a < b)
RECURSIVE merge_by(_, _)
merge_by(left, right) ==
    IF left = <<>> THEN right
    ELSE IF right = <<>> THEN left
    ELSE IF Head(left).start < Head(right).start
         THEN <<Head(left)>> \o merge_by(Tail(left), right)
         ELSE <<Head(right)>> \o merge_by(left, Tail(right))

\* Iterator::skip_while(|(_, comment_or_line)| comment_or_line.is_none())
RECURSIVE skip_while_none(_)
skip_while_none(entries) ==
    IF entries # <<>> /\ Head(entries).comment = None
    THEN skip_while_none(Tail(entries))
    ELSE entries

comments_before(comments, empty_lines, limit, retain_empty_lines) ==
    LET end_c == end_comments(comments, limit)
        end_e == end_empty_lines(empty_lines, limit)
        popped_comments ==
            [i \in 1..end_c |->
                [start |-> comments[i].start, comment |-> Some(comments[i].content)]]
        runs == coalesce(IF retain_empty_lines
                         THEN SubSeq(empty_lines, 1, end_e) ELSE <<>>)
        popped_empty_lines ==
            [i \in 1..Len(runs) |-> [start |-> runs[i], comment |-> None]]
    IN  [popped |-> skip_while_none(merge_by(popped_comments, popped_empty_lines)),
         comments |-> SubSeq(comments, end_c + 1, Len(comments)),
         empty_lines |-> SubSeq(empty_lines, end_e + 1, Len(empty_lines))]

any_comments(self, limit) ==
    self.comments # <<>> /\ Head(self.comments).start < limit

any_empty_lines(self, limit) ==
    self.empty_lines # <<>> /\ Head(self.empty_lines) < limit

\* the pop that forgets to store the rest of the comments
pop_comments_with_position_kept(self, limit) ==
    LET result(r) == [self |-> [self EXCEPT !.empty_lines = r.empty_lines],
                      ret |-> r.popped]
    IN  result(comments_before(self.comments, self.empty_lines, limit, TRUE))

\* the pop that forgets to store the rest of the empty lines
pop_comments_with_position_lines_kept(self, limit) ==
    LET result(r) == [self |-> [self EXCEPT !.comments = r.comments],
                      ret |-> r.popped]
    IN  result(comments_before(self.comments, self.empty_lines, limit, TRUE))

\* a method is [self |-> the formatter after the call, ret |-> its result]
pop_comments_with_position(self, limit) ==
    LET result(r) == [self |-> [self EXCEPT !.comments = r.comments,
                                            !.empty_lines = r.empty_lines],
                      ret |-> r.popped]
    IN  result(comments_before(self.comments, self.empty_lines, limit, TRUE))

\* .map(|(_position, comment)| comment)
pop_comments(self, limit) ==
    LET result(r) ==
            [self |-> r.self, ret |-> [i \in 1..Len(r.ret) |-> r.ret[i].comment]]
    IN  result(pop_comments_with_position(self, limit))

\* the pop of doc comments that retains the empty lines
pop_doc_comments_retaining(self, limit) ==
    LET result(r) ==
            [self |-> [self EXCEPT !.doc_comments = r.comments,
                                   !.empty_lines = r.empty_lines],
             ret |-> [i \in 1..Len(r.popped) |-> r.popped[i].comment]]
    IN  result(comments_before(self.doc_comments, self.empty_lines, limit, TRUE))

pop_doc_comments(self, limit) ==
    LET result(r) ==
            [self |-> [self EXCEPT !.doc_comments = r.comments,
                                   !.empty_lines = r.empty_lines],
             ret |-> [i \in 1..Len(r.popped) |-> r.popped[i].comment]]
    IN  result(comments_before(self.doc_comments, self.empty_lines, limit, FALSE))

pop_empty_lines(self, limit) ==
    LET end == end_empty_lines(self.empty_lines, limit)
    IN  [self |-> [self EXCEPT !.empty_lines =
                        SubSeq(self.empty_lines, end + 1, Len(self.empty_lines))],
         ret |-> end # 0]

(***************************************************************************)
(* printed_comments, Formatter::doc_comments,                              *)
(* Formatter::printed_documented_comments                                  *)
(***************************************************************************)
\* the while loop of printed_comments over the entries not yet taken
RECURSIVE PrintedCommentsLoop(_, _, _)
PrintedCommentsLoop(comments, trailing_newline, doc) ==
    IF comments = <<>> THEN doc
    ELSE LET c == Head(comments)
             rest == Tail(comments)
         IN  IF c = None THEN PrintedCommentsLoop(rest, trailing_newline, doc)
             ELSE LET text == doc \o CommentText(c[1]) IN
                  IF rest = <<>>
                  THEN text \o (IF trailing_newline THEN line ELSE nil)
                  ELSE IF Head(rest) # None
                  THEN PrintedCommentsLoop(rest, trailing_newline, text \o line)
                  ELSE \* the blank line is taken, then the next entry peeked
                       IF Tail(rest) # <<>>
                       THEN PrintedCommentsLoop(Tail(rest), trailing_newline,
                                                text \o lines(2))
                       ELSE text \o (IF trailing_newline THEN lines(2) ELSE nil)

\* None when nothing was popped, else Some(document)
printed_comments(comments, trailing_newline) ==
    IF comments = <<>> THEN None
    ELSE Some(PrintedCommentsLoop(comments, trailing_newline, <<>>))

\* the unreachable!() arm of doc_comments
Unreachable == <<[t |-> "unreachable!"]>>

doc_comments(self, limit) ==
    LET texts(comments) ==
            [i \in 1..Len(comments) |->
                IF comments[i] = None THEN Unreachable
                ELSE DocCommentText(comments[i][1])]
        result(r) ==
            [self |-> r.self,
             ret |-> IF r.ret = <<>> THEN nil ELSE join(texts(r.ret), line) \o line]
    IN  result(pop_doc_comments(self, limit))

\* the while loop of printed_documented_comments
RECURSIVE PrintedDocumentedLoop(_, _, _)
PrintedDocumentedLoop(self, comments, doc) ==
    IF comments = <<>> THEN [self |-> self, ret |-> doc]
    ELSE LET c == Head(comments)
             rest == Tail(comments)
         IN  IF c.comment = None THEN PrintedDocumentedLoop(self, rest, doc)
             ELSE LET step(d, text) ==
                          IF rest = <<>>
                          THEN [self |-> d.self,
                                ret |-> text \o (IF ~is_empty(d.ret)
                                                 THEN lines(2) ELSE line)]
                          ELSE IF Head(rest).comment # None
                          THEN PrintedDocumentedLoop(d.self, rest, text \o line)
                          ELSE PrintedDocumentedLoop(d.self, Tail(rest),
                                                     text \o lines(2))
                      commented_by(d) ==
                          step(d, doc \o d.ret \o CommentText(c.comment[1]))
                  IN  commented_by(doc_comments(self, c.start))

printed_documented_comments(self, comments) ==
    IF comments = <<>> THEN [self |-> self, ret |-> None]
    ELSE LET result(r) == [self |-> r.self, ret |-> Some(r.ret)]
         IN  result(PrintedDocumentedLoop(self, comments, <<>>))

\* Option<Document>::to_doc, unwrap_or(nil())
to_doc(option) == IF option = None THEN nil ELSE option[1]

(***************************************************************************)
(* Top-level definitions.  A definition is                                 *)
(*   [is_import, start, end, value_start, module, as_name, unqualified]    *)
(* an import of `module` (a text of byte values) with an optional alias    *)
(* [variant, name] and possibly an unqualified list, or else the module    *)
(* constant `const x = 1` whose value starts at value_start.               *)
(***************************************************************************)
\* str::cmp(a, b) is not Greater: bytewise lexicographic order
RECURSIVE cmp_le(_, _)
cmp_le(a, b) ==
    IF a = <<>> THEN TRUE
    ELSE IF b = <<>> THEN FALSE
    ELSE IF Head(a) # Head(b) THEN Head(a) < Head(b)
    ELSE cmp_le(Tail(a), Tail(b))

\* an order that puts the greater module first
module_cmp_le_reversed(one, other) == cmp_le(other.module, one.module)

\* one.module.cmp(&other.module) is not Greater
module_cmp_le(one, other) == cmp_le(one.module, other.module)

\* the stable insertion of x into a sorted sequence
RECURSIVE InsertSorted(_, _)
InsertSorted(x, sorted) ==
    IF sorted = <<>> THEN <<x>>
    ELSE IF module_cmp_le(Head(sorted), x)
         THEN <<Head(sorted)>> \o InsertSorted(x, Tail(sorted))
         ELSE <<x>> \o sorted

\* Itertools::sorted_by: the stable sort of the standard library
RECURSIVE sorted_by(_)
sorted_by(imports) ==
    IF imports = <<>> THEN <<>>
    ELSE InsertSorted(imports[Len(imports)],
                      sorted_by(SubSeq(imports, 1, Len(imports) - 1)))

\* module.split('/').next_back(): the text after the last '/' (byte 47)
RECURSIVE last_segment(_)
last_segment(module) ==
    IF module = <<>> \/ module[Len(module)] = 47 THEN <<>>
    ELSE Append(last_segment(SubSeq(module, 1, Len(module) - 1)),
                module[Len(module)])

\* module.split('/').next(): the text before the first '/'
RECURSIVE first_segment(_)
first_segment(module) ==
    IF module = <<>> \/ Head(module) = 47 THEN <<>>
    ELSE <<Head(module)>> \o first_segment(Tail(module))

default_module_access_name(module) == last_segment(module)

\* the document of an import: its path, its unqualified list, its ` as ` clause
ImportText(import, as_clause) ==
    <<[t |-> "import", module |-> import.module,
       unqualified |-> import.unqualified, as |-> as_clause, id |-> import.start]>>

\* Formatter::definition, Definition::Import
import_definition(import) ==
    IF /\ import.as_name # None
       /\ import.as_name[1].variant = "Variable"
       /\ default_module_access_name(import.module) = import.as_name[1].name
    THEN ImportText(import, None)
    ELSE IF import.as_name = None THEN ImportText(import, None)
    ELSE ImportText(import, Some(import.as_name[1].name))

\* commented(doc, comments)
commented(doc, comments) == to_doc(printed_comments(comments, TRUE)) \o doc

\* Formatter::const_expr of the Int 1
const_expr(self, value_start) ==
    LET result(r) ==
            [self |-> r.self,
             ret |-> commented(<<[t |-> "int", value |-> int(<<"1">>)]>>, r.ret)]
    IN  result(pop_comments(self, value_start))

\* Formatter::definition
definition(self, s) ==
    IF s.is_import THEN [self |-> self, ret |-> import_definition(s)]
    ELSE LET result(r) ==
                 [self |-> r.self, ret |-> <<[t |-> "const", id |-> s.start]>> \o r.ret]
         IN  result(const_expr(self, s.value_start))

documented_definition(self, s) ==
    LET result(comments, d) == [self |-> d.self, ret |-> comments.ret \o d.ret]
        documented(comments) == result(comments, definition(comments.self, s))
    IN  documented(doc_comments(self, s.start))

targeted_definition(self, s) ==
    LET result(comments, document) ==
            [self |-> document.self, ret |-> to_doc(comments.ret) \o document.ret]
        printed(comments) == result(comments, documented_definition(comments.self, s))
        comments_of(popped) ==
            printed(printed_documented_comments(popped.self, popped.ret))
    IN  comments_of(pop_comments_with_position(self, s.start))

\* the map over the sorted imports, then intersperse(line())
RECURSIVE SortedGroupLoop(_, _, _)
SortedGroupLoop(self, sorted, doc) ==
    IF sorted = <<>> THEN [self |-> self, ret |-> doc]
    ELSE LET next(d) ==
                 SortedGroupLoop(d.self, Tail(sorted),
                     IF doc = <<>> THEN d.ret ELSE doc \o line \o d.ret)
         IN  next(targeted_definition(self, Head(sorted)))

sorted_import_group(self, imports) ==
    SortedGroupLoop(self, sorted_by(imports), <<>>)

\* a new group only after a `//` comment
start_new_group_after_comment(self, start) == any_comments(self, start)

\* let start_new_group = ...
start_new_group(self, start) ==
    any_comments(self, start) \/ any_empty_lines(self, start)

\* the group collected so far is printed below its delimiter
FlushGroup(st) ==
    IF st.current_group = <<>> THEN st
    ELSE LET flushed(g) ==
                 [st EXCEPT !.self = g.self,
                            !.import_groups_docs =
                                Append(@, st.current_group_delimiter \o g.ret),
                            !.current_group = <<>>]
         IN  flushed(sorted_import_group(st.self, st.current_group))

\* the for loop of Formatter::imports; st holds its locals, and `started`
\* the start of every import at which start_new_group was true
RECURSIVE ImportsLoop(_, _)
ImportsLoop(st, imports) ==
    IF imports = <<>> THEN FlushGroup(st)
    ELSE LET import == Head(imports)
             start == import.start
         IN  IF start_new_group(st.self, start)
             THEN LET next(flushed, comments, popped) ==
                          ImportsLoop(
                              [flushed EXCEPT
                                  !.self = popped.self,
                                  !.current_group_delimiter =
                                      to_doc(printed_comments(comments.ret, TRUE)),
                                  !.current_group = <<import>>,
                                  !.started = @ \cup {start}],
                              Tail(imports))
                      delimited(flushed, comments) ==
                          next(flushed, comments, pop_empty_lines(comments.self, start))
                      group_of(flushed) ==
                          delimited(flushed, pop_comments(flushed.self, start))
                  IN  group_of(FlushGroup(st))
             ELSE ImportsLoop([st EXCEPT !.current_group = Append(@, import)],
                              Tail(imports))

\* Itertools::intersperse over a vector of documents
RECURSIVE intersperse(_, _)
intersperse(docs, separator) ==
    IF Len(docs) <= 1 THEN docs
    ELSE <<Head(docs), separator>> \o intersperse(Tail(docs), separator)

\* Formatter::imports: ret is the vector of documents
imports(self, definitions) ==
    LET result(st) ==
            [self |-> st.self,
             ret |-> intersperse(st.import_groups_docs, lines(2)),
             started |-> st.started]
    IN  result(ImportsLoop([self |-> self, import_groups_docs |-> <<>>,
                            current_group |-> <<>>, current_group_delimiter |-> nil,
                            started |-> {}],
                           definitions))

(***************************************************************************)
(* Constants, and the states of the formatters that are not running.       *)
(***************************************************************************)
\* u32::MAX: a limit above every source offset (here the largest 32-bit
\* signed integer, which pops what u32::MAX pops)
U32_MAX == 2147483647

FmtIdle ==
    [source |-> <<>>,
     self |-> [comments |-> <<>>, doc_comments |-> <<>>,
               module_comments |-> <<>>, empty_lines |-> <<>>],
     definitions |-> <<>>, next |-> 1, documents |-> <<>>,
     previous_was_a_definition |-> FALSE, started |-> {}, sections |-> <<>>,
     out |-> <<>>, pass |-> 1, first |-> <<>>, pc |-> "idle"]

NumIdle == [kind |-> "int", value |-> <<>>, out |-> <<>>, pc |-> "idle"]

CurIdle ==
    [self |-> [comments |-> <<>>, doc_comments |-> <<>>, empty_lines |-> <<>>],
     input |-> <<>>, returned |-> <<>>, printed |-> <<>>, doc |-> <<>>,
     op |-> "none", limit |-> 0, trailing_newline |-> FALSE, popped |-> <<>>,
     before |-> [comments |-> <<>>, doc_comments |-> <<>>, empty_lines |-> <<>>],
     pc |-> "idle"]

ImpIdle ==
    [import |-> [is_import |-> TRUE, start |-> 0, end |-> 0, value_start |-> 0,
                 module |-> <<>>, as_name |-> <<>>, unqualified |-> FALSE],
     out |-> <<>>, pc |-> "idle"]

StmIdle ==
    [self |-> [comments |-> <<>>, doc_comments |-> <<>>, empty_lines |-> <<>>],
     statements |-> <<>>, empty_lines |-> <<>>, comments |-> <<>>, i |-> 0,
     previous_position |-> 0, documents |-> <<>>, pc |-> "idle"]

PrtIdle == [path |-> <<>>, src |-> <<>>, writer |-> <<>>, result |-> <<>>, pc |-> "idle"]

BoxIdle ==
    [kind |-> "", self |-> [comments |-> <<>>, doc_comments |-> <<>>,
                            empty_lines |-> <<>>, new_lines |-> <<>>,
                            trailing_commas |-> <<>>],
     comments |-> <<>>, items |-> <<>>, tail |-> <<>>,
     location |-> [start |-> 0, end |-> 0], packing |-> "none",
     empty_lines |-> <<>>, document |-> <<>>, pc |-> "idle"]

CapIdle ==
    [position |-> "", arguments |-> <<>>, location |-> [start |-> 0, end |-> 0],
     document |-> <<>>, pc |-> "idle"]

PrbIdle ==
    [self |-> [comments |-> <<>>, doc_comments |-> <<>>, empty_lines |-> <<>>,
               new_lines |-> <<>>, trailing_commas |-> <<>>],
     items |-> <<>>, tail |-> <<>>, location |-> [start |-> 0, end |-> 0],
     start |-> 0, end |-> 0, found |-> FALSE, packing |-> "none",
     op |-> "none", pc |-> "idle"]

(***************************************************************************)
(* The source of a module, line by line, and the extras and definitions    *)
(* the parser makes of it.  A line is an import (whose unqualified list    *)
(* may hold a blank line), the constant, a `//`, `///` or `////` comment   *)
(* with content c, or a blank line of ws spaces.                           *)
(***************************************************************************)
ImportLine(module, as_name, inner) ==
    [k |-> "import", module |-> module, as_name |-> as_name, inner |-> inner]

ConstLine == [k |-> "const"]

CommentLine(k, c) == [k |-> k, c |-> c]

BlankLine(ws) == [k |-> "blank", ws |-> ws]

NoExtras ==
    [definitions |-> <<>>, comments |-> <<>>, doc_comments |-> <<>>,
     module_comments |-> <<>>, empty_lines |-> <<>>]

\* the parse of the lines from offset p on; a blank line is recorded at the
\* offset at which it starts
RECURSIVE ParseLines(_, _, _)
ParseLines(source, p, parsed) ==
    IF source = <<>> THEN parsed
    ELSE LET l == Head(source)
             rest == Tail(source)
             comment == <<[start |-> p, content |-> l.c]>>
         IN  CASE l.k = "import" /\ l.inner # "blank" ->
                    ParseLines(rest, p + 2,
                        [parsed EXCEPT !.definitions = Append(@,
                            [is_import |-> TRUE, start |-> p, end |-> p + 1,
                             value_start |-> p, module |-> l.module,
                             as_name |-> l.as_name,
                             unqualified |-> l.inner # "none"])])
               [] l.k = "import" /\ l.inner = "blank" ->
                    \* `import m.{`, a blank line at p + 2, `b}`
                    ParseLines(rest, p + 5,
                        [parsed EXCEPT !.definitions = Append(@,
                            [is_import |-> TRUE, start |-> p, end |-> p + 4,
                             value_start |-> p, module |-> l.module,
                             as_name |-> l.as_name, unqualified |-> TRUE]),
                                       !.empty_lines = Append(@, p + 2)])
               [] l.k = "const" ->
                    ParseLines(rest, p + 3,
                        [parsed EXCEPT !.definitions = Append(@,
                            [is_import |-> FALSE, start |-> p, end |-> p + 2,
                             value_start |-> p + 1, module |-> <<>>,
                             as_name |-> None, unqualified |-> FALSE])])
               [] l.k = "//" ->
                    ParseLines(rest, p + 2, [parsed EXCEPT !.comments = @ \o comment])
               [] l.k = "///" ->
                    ParseLines(rest, p + 2, [parsed EXCEPT !.doc_comments = @ \o comment])
               [] l.k = "////" ->
                    ParseLines(rest, p + 2, [parsed EXCEPT !.module_comments = @ \o comment])
               [] l.k = "blank" ->
                    ParseLines(rest, p + l.ws + 1,
                        [parsed EXCEPT !.empty_lines = Append(@, p)])

parse_module(source) == ParseLines(source, 0, NoExtras)

\* Formatter::with_comments and the locals of module() before its loop
StartModule(source, pass, first) ==
    LET started(parsed) ==
            [source |-> source,
             self |-> [comments |-> parsed.comments,
                       doc_comments |-> parsed.doc_comments,
                       module_comments |-> parsed.module_comments,
                       empty_lines |-> parsed.empty_lines],
             definitions |-> parsed.definitions, next |-> 1, documents |-> <<>>,
             previous_was_a_definition |-> FALSE, started |-> {},
             sections |-> <<>>, out |-> <<>>, pass |-> pass, first |-> first, pc |-> "definitions"]
    IN  started(parse_module(source))

\* the lines a source may be made of, before their comments get a content
LineShapes ==
    {ImportLine(<<97>>, None, "none"), ImportLine(<<98>>, None, "none"),
     ImportLine(<<97>>, None, "blank"),
     ConstLine, CommentLine("//", 0), CommentLine("///", 0),
     CommentLine("////", 0), BlankLine(0), BlankLine(1)}

\* every comment's content is the number of its line
Numbered(shapes) ==
    [i \in 1..Len(shapes) |->
        IF shapes[i].k \in {"//", "///", "////"}
        THEN CommentLine(shapes[i].k, i) ELSE shapes[i]]

(***************************************************************************)
(* Formatter::module, one action for every chunk of its loop over          *)
(* chunk_by(is_import) and one for what follows the loop.                  *)
(***************************************************************************)
\* the last definition of the chunk that starts at definition i
RECURSIVE ChunkEnd(_, _)
ChunkEnd(definitions, i) ==
    IF i < Len(definitions)
       /\ definitions[i + 1].is_import = definitions[i].is_import
    THEN ChunkEnd(definitions, i + 1)
    ELSE i

\* the loop with a single line break between two definitions
RECURSIVE DefinitionsLoopOneLine(_, _, _)
DefinitionsLoopOneLine(self, definitions, documents) ==
    IF definitions = <<>> THEN [self |-> self, ret |-> documents]
    ELSE LET next(d) ==
                 DefinitionsLoopOneLine(d.self, Tail(definitions),
                     (IF documents # <<>> THEN Append(documents, line)
                      ELSE documents) \o <<d.ret>>)
         IN  next(targeted_definition(self, Head(definitions)))

\* for definition in definitions { ... } of a chunk that holds no import
RECURSIVE DefinitionsLoop(_, _, _)
DefinitionsLoop(self, definitions, documents) ==
    IF definitions = <<>> THEN [self |-> self, ret |-> documents]
    ELSE LET next(d) ==
                 DefinitionsLoop(d.self, Tail(definitions),
                     (IF documents # <<>> THEN Append(documents, lines(2))
                      ELSE documents) \o <<d.ret>>)
         IN  next(targeted_definition(self, Head(definitions)))

ModuleInit ==
    /\ \E n \in 1..MaxLines : \E shapes \in [1..n -> LineShapes] :
          fmt = StartModule(Numbered(shapes), 1, <<>>)
    /\ num = NumIdle
    /\ cur = CurIdle
    /\ imp = ImpIdle
    /\ stm = StmIdle
    /\ prt = PrtIdle
    /\ box = BoxIdle
    /\ cap = CapIdle
    /\ prb = PrbIdle

ModuleImports ==
    /\ fmt.pc = "definitions"
    /\ fmt.next <= Len(fmt.definitions)
    /\ fmt.definitions[fmt.next].is_import
    /\ LET append(last, r) ==
               fmt' = [fmt EXCEPT
                         !.self = r.self,
                         !.documents =
                             (IF fmt.previous_was_a_definition
                              THEN Append(@, lines(2)) ELSE @) \o r.ret,
                         !.started = @ \cup r.started,
                         !.previous_was_a_definition = FALSE,
                         !.next = last + 1]
           chunk(last) ==
               append(last, imports(fmt.self, SubSeq(fmt.definitions, fmt.next, last)))
       IN  chunk(ChunkEnd(fmt.definitions, fmt.next))
    /\ UNCHANGED <<num, cur, imp, stm, prt, box, cap, prb>>

ModuleDefinitions ==
    /\ fmt.pc = "definitions"
    /\ fmt.next <= Len(fmt.definitions)
    /\ ~fmt.definitions[fmt.next].is_import
    /\ LET push(last, r) ==
               fmt' = [fmt EXCEPT
                         !.self = r.self,
                         !.documents = r.ret,
                         !.previous_was_a_definition = TRUE,
                         !.next = last + 1]
           chunk(last) ==
               push(last, DefinitionsLoop(fmt.self,
                              SubSeq(fmt.definitions, fmt.next, last), fmt.documents))
       IN  chunk(ChunkEnd(fmt.definitions, fmt.next))
    /\ UNCHANGED <<num, cur, imp, stm, prt, box, cap, prb>>

\* module() after its loop: the four sections, joined
module_sections(self, documents) ==
    LET definitions == concat(documents)
        doc_comments_doc ==
            join([i \in 1..Len(self.doc_comments) |->
                    DocCommentText(self.doc_comments[i].content)], line)
        module_comments ==
            IF self.module_comments # <<>>
            THEN join([i \in 1..Len(self.module_comments) |->
                        ModuleCommentText(self.module_comments[i].content)], line)
                    \o line
            ELSE nil
        sections(comments) ==
            <<module_comments, definitions, doc_comments_doc, comments>>
        non_empty(vec) == SelectSeq(vec, LAMBDA doc : ~is_empty(doc))
        joined(popped, vec) ==
            [self |-> popped.self, sections |-> vec,
             ret |-> join(non_empty(vec), line) \o line]
        result(popped) ==
            joined(popped, sections(to_doc(printed_comments(popped.ret, FALSE))))
    IN  result(pop_comments(self, U32_MAX))

ModuleFinish ==
    /\ fmt.pc = "definitions"
    /\ fmt.next > Len(fmt.definitions)
    /\ LET finish(r) ==
               fmt' = [fmt EXCEPT !.self = r.self, !.sections = r.sections,
                                  !.out = r.ret, !.pc = "done"]
       IN  finish(module_sections(fmt.self, fmt.documents))
    /\ UNCHANGED <<num, cur, imp, stm, prt, box, cap, prb>>

\* the name an alias is parsed to: a discard name starts with `_` (byte 95)
AssignName(name) ==
    [variant |-> IF Head(name) = 95 THEN "Discard" ELSE "Variable", name |-> name]

\* pretty_print: the text of a document, as the lines of a source; a line
\* token ends the line it follows and leaves a blank line for every further
\* newline
RECURSIVE PrettyPrintLoop(_, _, _)
PrettyPrintLoop(doc, at_line_start, source) ==
    IF doc = <<>> THEN source
    ELSE LET tok == Head(doc)
             rest == Tail(doc)
         IN  IF tok.t = "line"
             THEN PrettyPrintLoop(rest, TRUE,
                      source \o [i \in 1..(tok.n - (IF at_line_start THEN 0 ELSE 1))
                                    |-> BlankLine(0)])
             ELSE IF tok.t \in {"//", "///", "////"}
             THEN PrettyPrintLoop(rest, FALSE, Append(source, CommentLine(tok.t, tok.c)))
             ELSE IF tok.t = "import"
             THEN PrettyPrintLoop(rest, FALSE,
                      Append(source,
                          ImportLine(tok.module,
                              IF tok.as = None THEN None
                              ELSE Some(AssignName(tok.as[1])),
                              IF tok.unqualified THEN "flat" ELSE "none")))
             ELSE IF tok.t = "const"
             THEN PrettyPrintLoop(rest, FALSE, Append(source, ConstLine))
             ELSE \* the value of the constant, on the line of its `const`
                  PrettyPrintLoop(rest, FALSE, source)

pretty_print(doc) == PrettyPrintLoop(doc, TRUE, <<>>)

\* pretty() run on the text it has just written
Reparse ==
    /\ fmt.pc = "done"
    /\ fmt.pass = 1
    /\ fmt' = StartModule(pretty_print(fmt.out), 2, pretty_print(fmt.out))
    /\ UNCHANGED <<num, cur, imp, stm, prt, box, cap, prb>>

ModuleNext == ModuleImports \/ ModuleDefinitions \/ ModuleFinish \/ Reparse

Spec == ModuleInit /\ [][ModuleNext]_vars

(***************************************************************************)
(* pretty(): the source is parsed, the module formatted and its document   *)
(* written; a source the parser rejects ends the call with an error.       *)
(***************************************************************************)
MaxSrcLines == 2

\* a line that is no Gleam
InvalidLine == [k |-> "invalid"]

\* crate::parse::parse_module: the module and its extras, or the error of
\* the parser, which names the first line it rejects
parse_module_result(src) ==
    LET invalid == {i \in 1..Len(src) : src[i].k = "invalid"}
    IN  IF invalid = {}
        THEN [ok |-> TRUE, parsed |-> parse_module(src), error |-> 0]
        ELSE [ok |-> FALSE, parsed |-> NoExtras,
              error |-> CHOOSE i \in invalid : \A j \in invalid : i <= j]

\* an Error::Parse that has lost the source text
parse_error_without_src(path, src, error) ==
    [tag |-> "Parse", path |-> path, src |-> <<>>, error |-> error]

\* Error::Parse { path: path.to_path_buf(), src: src.clone(), error }
parse_error(path, src, error) ==
    [tag |-> "Parse", path |-> path, src |-> src, error |-> error]

\* Ok(())
Ok == [tag |-> "Ok", path |-> <<>>, src |-> <<>>, error |-> 0]

PrettyInit ==
    /\ \E path \in {<<97>>, <<98>>}, written \in {<<>>, <<ConstLine>>} :
       \E n \in 1..MaxSrcLines : \E shapes \in [1..n -> LineShapes \cup {InvalidLine}] :
          prt = [path |-> path, src |-> Numbered(shapes), writer |-> written,
                 result |-> None, pc |-> "parse"]
    /\ fmt = FmtIdle
    /\ num = NumIdle
    /\ cur = CurIdle
    /\ imp = ImpIdle
    /\ stm = StmIdle
    /\ box = BoxIdle
    /\ cap = CapIdle
    /\ prb = PrbIdle

\* let parsed = parse_module(...).map_err(...)?; Formatter::with_comments
PrettyParse ==
    /\ prt.pc = "parse"
    /\ LET parsed(r) ==
               IF r.ok
               THEN /\ prt' = [prt EXCEPT !.pc = "format"]
                    /\ fmt' = StartModule(prt.src, 1, <<>>)
               ELSE /\ prt' = [prt EXCEPT
                                 !.result = Some(parse_error(prt.path, prt.src, r.error)),
                                 !.pc = "returned"]
                    /\ fmt' = fmt
       IN  parsed(parse_module_result(prt.src))
    /\ UNCHANGED <<num, cur, imp, stm, box, cap, prb>>

\* .pretty_print(80, writer)
PrettyWrite ==
    /\ prt.pc = "format"
    /\ fmt.pc = "done"
    /\ prt' = [prt EXCEPT !.writer = @ \o pretty_print(fmt.out),
                          !.result = Some(Ok), !.pc = "returned"]
    /\ UNCHANGED <<num, cur, fmt, imp, stm, box, cap, prb>>

PrettyNext ==
    PrettyParse \/ ModuleImports \/ ModuleDefinitions \/ ModuleFinish \/ PrettyWrite

SpecPretty == PrettyInit /\ [][PrettyNext]_vars

(***************************************************************************)
(* The cursor popped with arbitrary limits: the extras of a source, and    *)
(* one action per pop and the printer its callers hand the result to.      *)
(***************************************************************************)
Offsets == 0..MaxOffset

\* the offsets at which layout has an extra of the given kind, in order
RECURSIVE OffsetsOf(_, _, _)
OffsetsOf(layout, kind, from) ==
    IF from > MaxOffset THEN <<>>
    ELSE (IF layout[from] = kind THEN <<from>> ELSE <<>>)
            \o OffsetsOf(layout, kind, from + 1)

\* the comments at the given offsets; a comment's content is named by its offset
CommentsAt(offsets) ==
    [i \in 1..Len(offsets) |-> [start |-> offsets[i], content |-> offsets[i]]]

Contents(comments) == [i \in 1..Len(comments) |-> comments[i].content]

\* the Some entries of a popped sequence, as comments
RECURSIVE Returned(_)
Returned(popped) ==
    IF popped = <<>> THEN <<>>
    ELSE (IF Head(popped).comment = None THEN <<>>
          ELSE <<[start |-> Head(popped).start, content |-> Head(popped).comment[1]]>>)
            \o Returned(Tail(popped))

CurInit ==
    \E layout \in [Offsets -> {"", "//", "///", "blank"}] :
        /\ cur = [self |-> [comments |-> CommentsAt(OffsetsOf(layout, "//", 0)),
                            doc_comments |-> CommentsAt(OffsetsOf(layout, "///", 0)),
                            empty_lines |-> OffsetsOf(layout, "blank", 0)],
                  input |-> CommentsAt(OffsetsOf(layout, "//", 0)),
                  returned |-> <<>>, printed |-> <<>>, doc |-> <<>>,
                  op |-> "none", limit |-> 0, trailing_newline |-> FALSE,
                  popped |-> <<>>,
                  before |-> [comments |-> <<>>, doc_comments |-> <<>>,
                              empty_lines |-> <<>>],
                  pc |-> "popping"]
        /\ num = NumIdle
        /\ fmt = FmtIdle
        /\ imp = ImpIdle
        /\ stm = StmIdle
        /\ prt = PrtIdle
        /\ box = BoxIdle
        /\ cap = CapIdle
        /\ prb = PrbIdle

\* printed_comments(self.pop_comments(limit), trailing_newline), as in commented()
PopComments(limit, trailing_newline) ==
    /\ cur.pc = "popping"
    /\ LET r == pop_comments(cur.self, limit)
           doc == to_doc(printed_comments(r.ret, trailing_newline))
       IN  cur' = [cur EXCEPT
                     !.self = r.self,
                     !.returned = @ \o Returned(pop_comments_with_position(cur.self, limit).ret),
                     !.printed = @ \o CommentsOf(doc),
                     !.doc = doc,
                     !.op = "pop_comments", !.limit = limit,
                     !.trailing_newline = trailing_newline,
                     !.popped = r.ret, !.before = cur.self]
    /\ UNCHANGED <<num, fmt, imp, stm, prt, box, cap, prb>>

\* printed_documented_comments(pop_comments_with_position(limit)), as in targeted_definition
PopCommentsWithPosition(limit) ==
    /\ cur.pc = "popping"
    /\ LET r == pop_comments_with_position(cur.self, limit)
           p == printed_documented_comments(r.self, r.ret)
       IN  cur' = [cur EXCEPT
                     !.self = p.self,
                     !.returned = @ \o Returned(r.ret),
                     !.printed = @ \o CommentsOf(to_doc(p.ret)),
                     !.doc = to_doc(p.ret),
                     !.op = "pop_comments_with_position", !.limit = limit,
                     !.trailing_newline = FALSE,
                     !.popped = r.ret, !.before = cur.self]
    /\ UNCHANGED <<num, fmt, imp, stm, prt, box, cap, prb>>

\* self.doc_comments(limit), as in documented_definition
PopDocComments(limit) ==
    /\ cur.pc = "popping"
    /\ LET r == doc_comments(cur.self, limit)
       IN  cur' = [cur EXCEPT !.self = r.self, !.doc = r.ret,
                              !.op = "pop_doc_comments", !.limit = limit,
                              !.trailing_newline = FALSE,
                              !.popped = pop_doc_comments(cur.self, limit).ret,
                              !.before = cur.self]
    /\ UNCHANGED <<num, fmt, imp, stm, prt, box, cap, prb>>

PopEmptyLines(limit) ==
    /\ cur.pc = "popping"
    /\ cur' = [cur EXCEPT !.self = pop_empty_lines(cur.self, limit).self,
                          !.doc = <<>>,
                          !.op = "pop_empty_lines", !.limit = limit,
                          !.trailing_newline = FALSE,
                          !.popped = <<>>, !.before = cur.self]
    /\ UNCHANGED <<num, fmt, imp, stm, prt, box, cap, prb>>

\* the end of module(): printed_comments(self.pop_comments(u32::MAX), false)
PopLeftoverComments ==
    /\ cur.pc = "popping"
    /\ LET r == pop_comments(cur.self, U32_MAX)
           doc == to_doc(printed_comments(r.ret, FALSE))
       IN  cur' = [cur EXCEPT
                     !.self = r.self,
                     !.returned = @ \o Returned(pop_comments_with_position(cur.self, U32_MAX).ret),
                     !.printed = @ \o CommentsOf(doc),
                     !.doc = doc,
                     !.op = "pop_comments", !.limit = U32_MAX,
                     !.trailing_newline = FALSE,
                     !.popped = r.ret, !.before = cur.self,
                     !.pc = "done"]
    /\ UNCHANGED <<num, fmt, imp, stm, prt, box, cap, prb>>

CurNext ==
    \/ \E limit \in Offsets, trailing_newline \in BOOLEAN :
          PopComments(limit, trailing_newline)
    \/ \E limit \in Offsets : PopCommentsWithPosition(limit)
    \/ \E limit \in Offsets : PopDocComments(limit)
    \/ \E limit \in Offsets : PopEmptyLines(limit)
    \/ PopLeftoverComments

SpecCursor == CurInit /\ [][CurNext]_vars

(***************************************************************************)
(* Formatter::definition on one import, alias and path drawn freely.       *)
(***************************************************************************)
\* the texts over alphabet of at most n bytes
Texts(alphabet, n) == UNION {[1..k -> alphabet] : k \in 1..n}

\* a module path: segments of `a` and `b` (bytes 97, 98) between `/`
ModulePaths ==
    {m \in Texts({97, 98, 47}, MaxPath) :
        /\ m[1] # 47
        /\ m[Len(m)] # 47
        /\ \A i \in 1..(Len(m) - 1) : ~(m[i] = 47 /\ m[i + 1] = 47)}

\* a variable name, or a discard name `_...`
AliasNames ==
    Texts({97, 98}, MaxAlias) \cup {<<95>> \o n : n \in Texts({97, 98}, 1)}

ImpInit ==
    \E module \in ModulePaths,
       as_name \in {None} \cup {Some(AssignName(n)) : n \in AliasNames},
       unqualified \in BOOLEAN :
        /\ imp = [import |-> [is_import |-> TRUE, start |-> 0, end |-> 1,
                              value_start |-> 0, module |-> module,
                              as_name |-> as_name, unqualified |-> unqualified],
                  out |-> <<>>, pc |-> "parsed"]
        /\ num = NumIdle
        /\ cur = CurIdle
        /\ fmt = FmtIdle
        /\ stm = StmIdle
        /\ prt = PrtIdle
        /\ box = BoxIdle
        /\ cap = CapIdle
        /\ prb = PrbIdle

FormatImport ==
    /\ imp.pc = "parsed"
    /\ imp' = [imp EXCEPT
                 !.out = definition([comments |-> <<>>, doc_comments |-> <<>>,
                                     empty_lines |-> <<>>], imp.import).ret,
                 !.pc = "printed"]
    /\ UNCHANGED <<num, cur, fmt, stm, prt, box, cap, prb>>

ImpNext == FormatImport

SpecImport == ImpInit /\ [][ImpNext]_vars

(***************************************************************************)
(* Formatter::statements over the statements of a block.  A statement is   *)
(* [is_use, start, call_start, end]: the expression `x`, or `use <- x`.    *)
(***************************************************************************)
\* Formatter::expr of a variable
expr(self, start) ==
    LET result(r) == [self |-> r.self, ret |-> commented(<<[t |-> "var"]>>, r.ret)]
    IN  result(pop_comments(self, start))

\* Formatter::use_ of `use <- x`
use_(self, s) ==
    LET result(comments, call) ==
            [self |-> call.self,
             ret |-> commented(<<[t |-> "use"]>> \o call.ret, comments.ret)]
        called(comments) == result(comments, expr(comments.self, s.call_start))
    IN  called(pop_comments(self, s.start))

\* Formatter::statement
statement(self, s) == IF s.is_use THEN use_(self, s) ELSE expr(self, s.start)

\* slot k of a block starts at offset 2k; a statement fills [2k, 2k + 1), so
\* that a blank line right below it is recorded at its end + 1
Slots == 0..(MaxSlots - 1)

RECURSIVE SlotsOf(_, _, _)
SlotsOf(layout, kinds, from) ==
    IF from > MaxSlots - 1 THEN <<>>
    ELSE (IF layout[from] \in kinds THEN <<from>> ELSE <<>>)
            \o SlotsOf(layout, kinds, from + 1)

StatementsAt(layout) ==
    LET slots == SlotsOf(layout, {"x", "use"}, 0)
    IN  [i \in 1..Len(slots) |->
            [is_use |-> layout[slots[i]] = "use", start |-> 2 * slots[i],
             call_start |-> 2 * slots[i], end |-> 2 * slots[i] + 1]]

ExtrasAt(layout, kind) ==
    LET slots == SlotsOf(layout, {kind}, 0)
    IN  [i \in 1..Len(slots) |-> 2 * slots[i]]

StmInit ==
    \E layout \in [Slots -> {"", "x", "use", "//", "blank"}] :
        /\ StatementsAt(layout) # <<>>
        /\ stm = [self |-> [comments |-> CommentsAt(ExtrasAt(layout, "//")),
                            doc_comments |-> <<>>,
                            empty_lines |-> ExtrasAt(layout, "blank")],
                  statements |-> StatementsAt(layout),
                  empty_lines |-> ExtrasAt(layout, "blank"),
                  comments |-> ExtrasAt(layout, "//"),
                  i |-> 0, previous_position |-> 0, documents |-> <<>>,
                  pc |-> "statements"]
        /\ num = NumIdle
        /\ cur = CurIdle
        /\ fmt = FmtIdle
        /\ imp = ImpIdle
        /\ prt = PrtIdle
        /\ box = BoxIdle
        /\ cap = CapIdle
        /\ prb = PrbIdle

\* a todo appended after every use
appends_todo_after_any_use(s, i, count) == s.is_use

\* if statement.is_use() && i == count - 1
appends_todo(s, i, count) == s.is_use /\ i = count - 1

\* one turn of the for loop of Formatter::statements
StatementsLoop ==
    /\ stm.pc = "statements"
    /\ stm.i < Len(stm.statements)
    /\ LET s == stm.statements[stm.i + 1]
           count == Len(stm.statements)
           push(preceding_newline, d) ==
               stm' = [stm EXCEPT
                         !.self = d.self,
                         !.documents =
                             @ \o (IF stm.i # 0 /\ preceding_newline.ret THEN lines(2)
                                   ELSE IF stm.i # 0 THEN line ELSE nil)
                               \o d.ret
                               \o (IF appends_todo(s, stm.i, count)
                                   THEN line \o <<[t |-> "todo"]>> ELSE nil),
                         !.previous_position = s.end,
                         !.i = @ + 1]
           formatted(preceding_newline) ==
               push(preceding_newline, statement(preceding_newline.self, s))
       IN  formatted(pop_empty_lines(stm.self, stm.previous_position + 1))
    /\ UNCHANGED <<num, cur, fmt, imp, prt, box, cap, prb>>

\* documents.to_doc()
StatementsFinish ==
    /\ stm.pc = "statements"
    /\ stm.i = Len(stm.statements)
    /\ stm' = [stm EXCEPT !.pc = "done"]
    /\ UNCHANGED <<num, cur, fmt, imp, prt, box, cap, prb>>

StmNext == StatementsLoop \/ StatementsFinish

SpecStatements == StmInit /\ [][StmNext]_vars

(***************************************************************************)
(* Containers: a list, tuple, bit array, call, case expression or the body *)
(* of an anonymous function, formatted with the comments, blank lines,     *)
(* newlines and trailing comma the source has between its delimiters.      *)
(* An item is [start, end, can_have_multiple_per_line], a variable.        *)
(***************************************************************************)
text(s) == <<[t |-> "text", s |-> s]>>

break_(broken, unbroken) ==
    <<[t |-> "break", broken |-> broken, unbroken |-> unbroken, flex |-> FALSE]>>

flex_break(broken, unbroken) ==
    <<[t |-> "break", broken |-> broken, unbroken |-> unbroken, flex |-> TRUE]>>

\* a document inside another one
group(doc) == <<[t |-> "group", doc |-> doc]>>

force_break(doc) == <<[t |-> "force_break", doc |-> doc]>>

nest(doc) == <<[t |-> "nest", doc |-> doc]>>

nest_if_broken(doc) == <<[t |-> "nest_if_broken", doc |-> doc]>>

set_nesting(doc) == <<[t |-> "set_nesting", doc |-> doc]>>

next_break_fits(doc, mode) == <<[t |-> "next_break_fits", mode |-> mode, doc |-> doc]>>

\* the loop of slice::binary_search_by over the orderings the closure gives
\* the elements; left and right are 0-based, right is excluded
RECURSIVE BinarySearchLoop(_, _, _)
BinarySearchLoop(orderings, left, right) ==
    IF left >= right THEN [tag |-> "Err", index |-> left]
    ELSE LET mid == left + ((right - left) \div 2) IN
         IF orderings[mid + 1] = "Less" THEN BinarySearchLoop(orderings, mid + 1, right)
         ELSE IF orderings[mid + 1] = "Greater" THEN BinarySearchLoop(orderings, left, mid)
         ELSE [tag |-> "Ok", index |-> mid]

binary_search_by(orderings) == BinarySearchLoop(orderings, 0, Len(orderings))

is_ok(result) == result.tag = "Ok"

\* Formatter::spans_multiple_lines
spans_multiple_lines(self, start, end) ==
    is_ok(binary_search_by(
        [i \in 1..Len(self.new_lines) |->
            IF self.new_lines[i] <= start THEN "Less"
            ELSE IF self.new_lines[i] >= end THEN "Greater"
            ELSE "Equal"]))

\* Formatter::has_trailing_comma
has_trailing_comma(self, start, end) ==
    is_ok(binary_search_by(
        [i \in 1..Len(self.trailing_commas) |->
            IF self.trailing_commas[i] < start THEN "Less"
            ELSE IF self.trailing_commas[i] > end THEN "Greater"
            ELSE "Equal"]))

\* Formatter::has_items_on_the_same_line
has_items_on_the_same_line(self, items) ==
    \E i \in 1..(Len(items) - 1) :
        ~spans_multiple_lines(self, items[i].end, items[i + 1].start)

\* self.empty_lines.first().is_some_and(|empty_line| ...)
has_first_empty_line_between(self, first, last) ==
    /\ self.empty_lines # <<>>
    /\ Head(self.empty_lines) >= first.end
    /\ Head(self.empty_lines) < last.start

\* Formatter::items_sequence_packing
items_sequence_packing(self, items, tail, list_location) ==
    LET last_element_end ==
            IF tail # None THEN Some(tail[1].end)
            ELSE IF items # <<>> THEN Some(items[Len(items)].end) ELSE None
        ends_with_trailing_comma ==
            /\ last_element_end # None
            /\ has_trailing_comma(self, last_element_end[1], list_location.end)
        has_multiple_elements_per_line == has_items_on_the_same_line(self, items \o tail)
        first == IF items # <<>> THEN Some(items[1]) ELSE None
        last == IF items # <<>> THEN Some(items[Len(items)]) ELSE tail
        has_empty_lines_between_elements ==
            /\ first # None
            /\ last # None
            /\ has_first_empty_line_between(self, first[1], last[1])
    IN  IF has_empty_lines_between_elements THEN "BreakOnePerLine"
        ELSE IF ~ends_with_trailing_comma THEN "FitOnePerLine"
        ELSE IF /\ tail = None
                /\ \A i \in 1..Len(items) : items[i].can_have_multiple_per_line
                /\ has_multiple_elements_per_line
                /\ spans_multiple_lines(self, list_location.start, list_location.end)
        THEN "FitMultiplePerLine"
        ELSE "BreakOnePerLine"

\* Formatter::expr of a variable: the hole of a capture is printed as `_`.
\* An expression of another kind holds nothing the cursor knows of, its
\* document is the leaf that names its kind
expr_var(self, expression) ==
    IF expression.hole
    THEN LET result(r) == [self |-> r.self, ret |-> commented(text("_"), r.ret)]
         IN  result(pop_comments(self, expression.start))
    ELSE IF expression.kind # "Var"
    THEN LET result(r) ==
                 [self |-> r.self,
                  ret |-> commented(<<[t |-> "expr", kind |-> expression.kind]>>, r.ret)]
         IN  result(pop_comments(self, expression.start))
    ELSE expr(self, expression.start)

\* Formatter::comma_separated_item of an expression that is neither a binary
\* operation nor a pipeline
comma_separated_item(self, expression, siblings) ==
    LET grouped(r) == [self |-> r.self, ret |-> group(r.ret)]
    IN  grouped(expr_var(self, expression))

\* Formatter::call_arg: format_call_arg with expr_call_arg_formatting
call_arg(self, arg, arity) ==
    IF arg.label = None THEN comma_separated_item(self, arg, arity)
    ELSE LET result(comments, value) ==
                 [self |-> value.self,
                  ret |-> commented(text(arg.label[1]) \o text(": "), comments.ret)
                            \o value.ret]
             labelled(comments) ==
                 result(comments, comma_separated_item(comments.self, arg, arity))
         IN  labelled(pop_comments(self, arg.start))

\* the comma of a packing
comma_of(packing) ==
    IF packing = "FitMultiplePerLine" THEN flex_break(",", ", ") ELSE break_(",", ", ")

\* doc.group() or doc.force_break(), by the packing
packed(packing, doc) ==
    IF packing = "BreakOnePerLine" THEN force_break(doc) ELSE group(doc)

\* an empty container: the comments before its end between its delimiters
empty_container(self, open, close, location) ==
    LET printed(r, comments) ==
            [self |-> r.self,
             ret |-> IF comments = None THEN text(open \o close)
                     ELSE force_break(text(open) \o nest(break_("", "")) \o comments[1]
                                        \o break_("", "") \o text(close))]
        popped(r) == printed(r, printed_comments(r.ret, FALSE))
    IN  popped(pop_comments(self, location.end))

\* for element in elements.iter() { ... } of Formatter::list
RECURSIVE ListElementsLoop(_, _, _, _, _)
ListElementsLoop(self, elements, list_size, comma, elements_doc) ==
    IF elements = <<>> THEN [self |-> self, ret |-> elements_doc]
    ELSE LET next(empty_lines, element) ==
                 ListElementsLoop(element.self, Tail(elements), list_size, comma,
                     IF is_empty(elements_doc) THEN element.ret
                     ELSE IF empty_lines.ret
                     THEN elements_doc \o set_nesting(comma) \o line \o element.ret
                     ELSE elements_doc \o comma \o element.ret)
             item(empty_lines) ==
                 next(empty_lines,
                      comma_separated_item(empty_lines.self, Head(elements), list_size))
         IN  item(pop_empty_lines(self, Head(elements).start))

\* Formatter::list
list(self, elements, tail, location) ==
    IF elements = <<>>
    THEN IF tail # None THEN expr(self, tail[1].start)
         ELSE empty_container(self, "[", "]", location)
    ELSE LET list_packing == items_sequence_packing(self, elements, tail, location)
             list_size == Len(elements) + (IF tail # None THEN 1 ELSE 0)
             closed(r, comments, doc, last_break) ==
                 [self |-> r.self,
                  ret |-> packed(list_packing,
                            IF comments = None THEN doc \o last_break \o text("]")
                            ELSE force_break(doc \o nest(last_break) \o comments[1]
                                               \o line \o text("]")))]
             close(r, doc, last_break) ==
                 closed(r, printed_comments(r.ret, FALSE), doc, last_break)
             with_tail(doc, comments, t) ==
                 close(pop_comments(t.self, location.end),
                       nest(doc \o break_(",", ", ")
                                \o commented(text("..") \o t.ret, comments.ret)),
                       break_("", ""))
             tail_of(doc, comments) ==
                 with_tail(doc, comments, expr(comments.self, tail[1].start))
             finish(e, doc) ==
                 IF tail = None
                 THEN close(pop_comments(e.self, location.end), nest(doc), break_(",", ""))
                 ELSE tail_of(doc, pop_comments(e.self, tail[1].start))
             elements_done(e) ==
                 finish(e, break_("[", "[") \o next_break_fits(e.ret, "Disabled"))
         IN  elements_done(ListElementsLoop(self, elements, list_size,
                                            comma_of(list_packing), nil))

\* Formatter::wrap_function_call_arguments
wrap_function_call_arguments(self, arguments, location) ==
    IF arguments = <<>> THEN [self |-> self, ret |-> text("()")]
    ELSE LET arguments_doc ==
                 nest_if_broken(break_("", "") \o join(arguments, break_(",", ", ")))
             closing_parens(comments) ==
                 IF comments = None THEN break_(",", "") \o text(")")
                 ELSE force_break(nest(break_(",", "")) \o comments[1] \o line \o text(")"))
             wrapped(r) ==
                 [self |-> r.self,
                  ret |-> group(text("(") \o arguments_doc
                                \o closing_parens(printed_comments(r.ret, FALSE)))]
         IN  wrapped(pop_comments(self, location.end))

\* is_breakable_argument that takes a call among several arguments to be
\* breakable too
is_breakable_argument_of_any_call(expression, arity) ==
    expression.kind \in {"Call", "Fn", "Block", "Case", "List", "Tuple", "BitArray"}

\* is_breakable_argument: a call is only breakable if it is the only argument
is_breakable_argument(expression, arity) ==
    IF expression.kind = "Call" THEN arity = 1
    ELSE expression.kind \in {"Fn", "Block", "Case", "List", "Tuple", "BitArray"}

\* values.iter().map(|value| to_doc(self, value)).collect_vec(), to_doc
\* the comma_separated_item of a tuple or the call_arg of a call
RECURSIVE ValuesLoop(_, _, _, _, _)
ValuesLoop(self, values, siblings, to_doc_of, docs) ==
    IF values = <<>> THEN [self |-> self, ret |-> docs]
    ELSE LET next(d) ==
                 ValuesLoop(d.self, Tail(values), siblings, to_doc_of, Append(docs, d.ret))
         IN  next(IF to_doc_of = "call_arg"
                  THEN call_arg(self, Head(values), siblings)
                  ELSE comma_separated_item(self, Head(values), siblings))

\* Formatter::append_inlinable_wrapped_arguments
append_inlinable_wrapped_arguments(self, doc, values, location, to_doc_of) ==
    IF /\ values # <<>>
       /\ is_breakable_argument(values[Len(values)], Len(values))
       /\ ~any_comments(self, values[Len(values)].start)
    THEN LET wrapped(r) ==
                 [self |-> r.self,
                  ret |-> group(next_break_fits(doc \o r.ret, "Disabled"))]
             fits(docs) ==
                 SubSeq(docs, 1, Len(docs) - 1)
                    \o <<next_break_fits(group(docs[Len(docs)]), "Enabled")>>
             wrap(d) == wrapped(wrap_function_call_arguments(d.self, fits(d.ret), location))
         IN  wrap(ValuesLoop(self, values, Len(values), to_doc_of, <<>>))
    ELSE LET wrapped(r) == [self |-> r.self, ret |-> group(doc \o r.ret)]
             wrap(d) == wrapped(wrap_function_call_arguments(d.self, d.ret, location))
         IN  wrap(ValuesLoop(self, values, Len(values), to_doc_of, <<>>))

\* Formatter::tuple
tuple(self, elements, location) ==
    IF elements = <<>> THEN empty_container(self, "#(", ")", location)
    ELSE append_inlinable_wrapped_arguments(self, text("#"), elements, location,
                                            "comma_separated_item")

\* Formatter::call of a variable
call(self, fun, arguments, location) ==
    LET applied(f) ==
            append_inlinable_wrapped_arguments(f.self, f.ret, arguments, location,
                                               "call_arg")
    IN  applied(expr(self, fun.start))

\* segments.iter().map(|segment| bit_array_segment(segment, ...)), segments
\* that have no options: bit_array_segment_expr of a variable is expr
RECURSIVE SegmentsLoop(_, _, _)
SegmentsLoop(self, segments, docs) ==
    IF segments = <<>> THEN [self |-> self, ret |-> docs]
    ELSE LET next(d) == SegmentsLoop(d.self, Tail(segments), Append(docs, d.ret))
         IN  next(expr(self, Head(segments).start))

\* Formatter::bit_array
bit_array(self, segments, packing, location) ==
    LET doc == nest(break_("<<", "<<") \o join(segments, comma_of(packing)))
        last_break == break_(",", "")
        printed(r, comments_doc) ==
            [self |-> r.self,
             ret |-> IF segments = <<>>
                     THEN IF comments_doc = None THEN text("<<>>")
                          ELSE force_break(text("<<") \o nest(break_("", ""))
                                    \o comments_doc[1] \o break_("", "") \o text(">>"))
                     ELSE packed(packing,
                            IF comments_doc = None THEN doc \o last_break \o text(">>")
                            ELSE force_break(doc \o nest(last_break)
                                    \o nest(comments_doc[1]) \o line \o text(">>")))]
        popped(r) == printed(r, printed_comments(r.ret, FALSE))
    IN  popped(pop_comments(self, location.end))

\* the UntypedExpr::BitArray arm of Formatter::expr
bit_array_expr(self, segments, location) ==
    LET formatted(d) ==
            bit_array(d.self, d.ret,
                      items_sequence_packing(d.self, segments, None, location), location)
    IN  formatted(SegmentsLoop(self, segments, <<>>))

\* Formatter::clause of `x -> x`, no guard and one subject
clause(self, c, index) ==
    LET clause_doc(comments) ==
            LET doc == group(group(text("x") \o text(" ")) \o text("->")
                                \o group(next_break_fits(
                                      nest(break_("", " ") \o group(<<[t |-> "var"]>>)),
                                      "Disabled")))
            IN  IF comments = None THEN doc ELSE comments[1] \o line \o doc
        result(space_before, r) ==
            [self |-> r.self,
             ret |-> IF index = 0 THEN clause_doc(printed_comments(r.ret, FALSE))
                     ELSE IF space_before.ret
                     THEN lines(2) \o clause_doc(printed_comments(r.ret, FALSE))
                     ELSE line \o clause_doc(printed_comments(r.ret, FALSE))]
        popped(space_before) == result(space_before, pop_comments(space_before.self, c.start))
    IN  popped(pop_empty_lines(self, c.start))

\* clauses.iter().enumerate().map(|(i, c)| self.clause(c, i as u32).group())
RECURSIVE ClausesLoop(_, _, _, _)
ClausesLoop(self, clauses, i, docs) ==
    IF clauses = <<>> THEN [self |-> self, ret |-> docs]
    ELSE LET next(d) == ClausesLoop(d.self, Tail(clauses), i + 1, Append(docs, group(d.ret)))
         IN  next(clause(self, Head(clauses), i))

\* Formatter::case with one subject, a variable
case(self, subject, clauses, location) ==
    LET subjects_doc(s) ==
            group(next_break_fits(
                nest(break_("case", "case ") \o group(s.ret))
                    \o break_("", " ") \o text("{"), "Disabled"))
        closing_bracket(comments) ==
            IF comments = None THEN line \o text("}")
            ELSE nest(line \o comments[1]) \o line \o text("}")
        closed(s, c, r) ==
            [self |-> r.self,
             ret |-> force_break(subjects_doc(s) \o nest(line \o concat(c.ret))
                                   \o closing_bracket(printed_comments(r.ret, FALSE)))]
        close(s, c) == closed(s, c, pop_comments(c.self, location.end))
        of(s) == close(s, ClausesLoop(s.self, clauses, 0, <<>>))
    IN  of(expr(self, subject.start))

\* Formatter::statements, its for loop
RECURSIVE StatementsDocuments(_, _, _, _, _)
StatementsDocuments(self, statements, i, previous_position, documents) ==
    IF i = Len(statements) THEN [self |-> self, ret |-> documents]
    ELSE LET s == statements[i + 1]
             next(preceding_newline, d) ==
                 StatementsDocuments(d.self, statements, i + 1, s.end,
                     documents
                        \o (IF i # 0 /\ preceding_newline.ret THEN lines(2)
                            ELSE IF i # 0 THEN line ELSE nil)
                        \o group(d.ret)
                        \o (IF appends_todo(s, i, Len(statements))
                            THEN line \o <<[t |-> "todo"]>> ELSE nil))
             formatted(preceding_newline) ==
                 next(preceding_newline, statement(preceding_newline.self, s))
         IN  formatted(pop_empty_lines(self, previous_position + 1))

\* Formatter::statements of expressions
statements(self, body) ==
    LET result(r) ==
            [self |-> r.self,
             ret |-> IF Len(body) = 1 THEN r.ret ELSE force_break(r.ret)]
    IN  result(StatementsDocuments(self, body, 0, 0, <<>>))

\* wrap_block
wrap_block(doc) ==
    nest(break_("{", "{ ") \o doc) \o break_("", " ") \o text("}")

\* Formatter::expr_fn without arguments, from its body on
expr_fn(self, body, location) ==
    LET header == text("fn") \o text("()")
        result(s, r, comments) ==
            [self |-> r.self,
             ret |-> group(header \o text(" ")
                        \o wrap_block(IF comments = None THEN s.ret
                                      ELSE force_break(s.ret \o line \o comments[1])))]
        popped(s, r) == result(s, r, printed_comments(r.ret, FALSE))
        with_body(s) == popped(s, pop_comments(s.self, location.end))
    IN  with_body(statements(self, body))

(***************************************************************************)
(* The source of a container.  Its opening delimiter is at offset 0; slot  *)
(* k of its contents is at offset 4k and holds nothing, an item followed   *)
(* by a newline ("x"), an item with the next one on its line ("x_"), a     *)
(* comment or a blank line; the closing delimiter follows the last slot.   *)
(***************************************************************************)
MaxItems == 4

ItemSlots == 1..MaxItems

Kinds == {"list", "tuple", "bit_array", "call", "case", "fn"}

RECURSIVE ItemSlotsOf(_, _, _)
ItemSlotsOf(layout, kinds, from) ==
    IF from > MaxItems THEN <<>>
    ELSE (IF layout[from] \in kinds THEN <<from>> ELSE <<>>)
            \o ItemSlotsOf(layout, kinds, from + 1)

ItemsAt(layout, multiple) ==
    LET slots == ItemSlotsOf(layout, {"x", "x_"}, 1)
    IN  [i \in 1..Len(slots) |->
            [start |-> 4 * slots[i], end |-> 4 * slots[i] + 1,
             call_start |-> 4 * slots[i], is_use |-> FALSE,
             label |-> None, hole |-> FALSE, kind |-> "Var",
             can_have_multiple_per_line |-> multiple]]

\* the kinds of expression an argument can be: the ones is_breakable_argument
\* names, and a variable and an integer for the others
ExpressionKinds ==
    {"Var", "Int", "Call", "Fn", "Block", "Case", "List", "Tuple", "BitArray"}

\* the items, the last one an expression of the kind
WithLast(items, kind) ==
    [i \in 1..Len(items) |->
        IF i = Len(items) THEN [items[i] EXCEPT !.kind = kind] ELSE items[i]]

OffsetsAt(layout, kinds, shift) ==
    LET slots == ItemSlotsOf(layout, kinds, 1)
    IN  [i \in 1..Len(slots) |-> 4 * slots[i] + shift]

\* the newlines: behind an item that ends its line and behind a comment,
\* and the one a blank line is
NewLinesAt(layout) ==
    LET slots == ItemSlotsOf(layout, {"x", "//", "blank"}, 1)
    IN  [i \in 1..Len(slots) |->
            IF layout[slots[i]] = "blank" THEN 4 * slots[i] ELSE 4 * slots[i] + 2]

\* a layout the kind of container can have: an item shares its line with
\* an item only, statements and clauses have their own lines, a body has a
\* statement
Layouts(kind) ==
    {layout \in [ItemSlots -> {"", "x", "x_", "//", "blank"}] :
        /\ \A k \in ItemSlots :
              layout[k] = "x_" => (k < MaxItems /\ layout[k + 1] \in {"x", "x_"})
        /\ kind \in {"case", "fn"} => \A k \in ItemSlots : layout[k] # "x_"
        /\ kind = "fn" => \E k \in ItemSlots : layout[k] = "x"}

BoxLocation == [start |-> 0, end |-> 4 * (MaxItems + 1) + 1]

BoxInit ==
    /\ \E kind \in Kinds : \E layout \in Layouts(kind) :
       \E trailing_comma \in BOOLEAN, has_tail \in BOOLEAN, multiple \in BOOLEAN :
       \E last \in ExpressionKinds :
          LET items == WithLast(ItemsAt(layout, multiple), last) IN
          /\ last # "Var" => (kind \in {"tuple", "call"} /\ items # <<>>)
          /\ trailing_comma => (items # <<>> /\ kind \notin {"case", "fn"} /\ ~has_tail)
          /\ has_tail => (kind = "list" /\ Len(items) >= 2)
          /\ multiple => kind \in {"list", "bit_array"}
          /\ box = [kind |-> kind,
                    self |-> [comments |-> CommentsAt(OffsetsAt(layout, {"//"}, 0)),
                              doc_comments |-> <<>>,
                              empty_lines |-> OffsetsAt(layout, {"blank"}, 0),
                              new_lines |-> NewLinesAt(layout),
                              trailing_commas |->
                                  IF trailing_comma
                                  THEN <<items[Len(items)].end>> ELSE <<>>],
                    comments |-> OffsetsAt(layout, {"//"}, 0),
                    items |-> IF has_tail THEN SubSeq(items, 1, Len(items) - 1)
                              ELSE items,
                    tail |-> IF has_tail THEN Some(items[Len(items)]) ELSE None,
                    location |-> BoxLocation,
                    packing |-> "none", empty_lines |-> <<>>,
                    document |-> <<>>, pc |-> "start"]
    /\ num = NumIdle
    /\ cur = CurIdle
    /\ fmt = FmtIdle
    /\ imp = ImpIdle
    /\ stm = StmIdle
    /\ prt = PrtIdle
    /\ cap = CapIdle
    /\ prb = PrbIdle

\* the container formatted: the cursor and the document it leaves
Formatted(r) == box' = [box EXCEPT !.self = r.self, !.document = r.ret, !.pc = "done"]

\* the same, for a container that asks items_sequence_packing: the answer
\* and the blank lines the cursor held when it was asked
FormattedPacked(r, asked) ==
    box' = [box EXCEPT !.self = r.self, !.document = r.ret, !.pc = "done",
                       !.packing = items_sequence_packing(asked, box.items, box.tail,
                                                          box.location),
                       !.empty_lines = asked.empty_lines]

FormatList ==
    /\ box.pc = "start"
    /\ box.kind = "list"
    /\ FormattedPacked(list(box.self, box.items, box.tail, box.location), box.self)
    /\ UNCHANGED <<num, cur, fmt, imp, stm, prt, cap, prb>>

FormatTuple ==
    /\ box.pc = "start"
    /\ box.kind = "tuple"
    /\ Formatted(tuple(box.self, box.items, box.location))
    /\ UNCHANGED <<num, cur, fmt, imp, stm, prt, cap, prb>>

FormatBitArray ==
    /\ box.pc = "start"
    /\ box.kind = "bit_array"
    /\ FormattedPacked(bit_array_expr(box.self, box.items, box.location),
                       SegmentsLoop(box.self, box.items, <<>>).self)
    /\ UNCHANGED <<num, cur, fmt, imp, stm, prt, cap, prb>>

FormatCall ==
    /\ box.pc = "start"
    /\ box.kind = "call"
    /\ Formatted(call(box.self, [start |-> 0, end |-> 1], box.items, box.location))
    /\ UNCHANGED <<num, cur, fmt, imp, stm, prt, cap, prb>>

FormatCase ==
    /\ box.pc = "start"
    /\ box.kind = "case"
    /\ Formatted(case(box.self, [start |-> 1, end |-> 2], box.items, box.location))
    /\ UNCHANGED <<num, cur, fmt, imp, stm, prt, cap, prb>>

FormatFn ==
    /\ box.pc = "start"
    /\ box.kind = "fn"
    /\ Formatted(expr_fn(box.self, box.items, box.location))
    /\ UNCHANGED <<num, cur, fmt, imp, stm, prt, cap, prb>>

BoxNext ==
    FormatList \/ FormatTuple \/ FormatBitArray \/ FormatCall \/ FormatCase \/ FormatFn

SpecContainer == BoxInit /\ [][BoxNext]_vars

(***************************************************************************)
(* Function captures: the call f(...) with one hole `_` among its          *)
(* arguments, on the right-hand side of a pipe or anywhere else.  An       *)
(* argument is [label, hole, start, end], its value a variable or the hole.*)
(***************************************************************************)
MaxArguments == 3

\* an argument that is a hole, labelled or not
is_hole(arg) == arg.hole

\* arg.is_capture_hole() && arg.label.is_none()
is_unlabelled_hole(arg) == arg.hole /\ arg.label = None

\* Formatter::fn_capture of the call fun(arguments)
fn_capture(self, fun, arguments, location, position) ==
    IF Len(arguments) = 1 /\ is_unlabelled_hole(arguments[1])
    THEN expr(self, fun.start)
    ELSE IF /\ position = "RightHandSideOfPipe"
            /\ Len(arguments) >= 1
            /\ is_unlabelled_hole(arguments[1])
    THEN LET applied(f) ==
                 append_inlinable_wrapped_arguments(f.self, f.ret, Tail(arguments),
                                                    location, "call_arg")
         IN  applied(expr(self, fun.start))
    ELSE LET applied(f) ==
                 append_inlinable_wrapped_arguments(f.self, f.ret, arguments,
                                                    location, "call_arg")
         IN  applied(expr(self, fun.start))

\* the shapes of an argument that is no hole, and of the hole
VariableArguments == [label : {None, Some("a"), Some("b")}, hole : {FALSE}]

HoleArguments == [label : {None, Some("a")}, hole : {TRUE}]

\* argument k of the call is at offset 2k, the function at offset 0
ArgumentsAt(shapes) ==
    [k \in 1..Len(shapes) |->
        [label |-> shapes[k].label, hole |-> shapes[k].hole, kind |-> "Var",
         start |-> 2 * k, end |-> 2 * k + 1]]

CapInit ==
    /\ \E position \in {"RightHandSideOfPipe", "EverywhereElse"} :
       \E n \in 1..MaxArguments : \E at \in 1..n :
       \E shapes \in [1..n -> VariableArguments \cup HoleArguments] :
          /\ \A k \in 1..n : shapes[k].hole <=> k = at
          /\ cap = [position |-> position, arguments |-> ArgumentsAt(shapes),
                    location |-> [start |-> 0, end |-> 2 * n + 3],
                    document |-> <<>>, pc |-> "start"]
    /\ num = NumIdle
    /\ cur = CurIdle
    /\ fmt = FmtIdle
    /\ imp = ImpIdle
    /\ stm = StmIdle
    /\ prt = PrtIdle
    /\ box = BoxIdle
    /\ prb = PrbIdle

\* a formatter that has no comment or blank line left before the capture
NoCursor ==
    [comments |-> <<>>, doc_comments |-> <<>>, empty_lines |-> <<>>,
     new_lines |-> <<>>, trailing_commas |-> <<>>]

Captured(r) == cap' = [cap EXCEPT !.document = r.ret, !.pc = "done"]

\* Formatter::pipeline: UntypedExpr::Fn { kind, body, .. } if kind.is_capture()
PipelineCapture ==
    /\ cap.pc = "start"
    /\ cap.position = "RightHandSideOfPipe"
    /\ Captured(fn_capture(NoCursor, [start |-> 0, end |-> 1], cap.arguments,
                           cap.location, "RightHandSideOfPipe"))
    /\ UNCHANGED <<num, cur, fmt, imp, stm, prt, box, prb>>

\* Formatter::expr: UntypedExpr::Fn { kind, body, .. } if kind.is_capture()
ExprCapture ==
    /\ cap.pc = "start"
    /\ cap.position = "EverywhereElse"
    /\ Captured(fn_capture(NoCursor, [start |-> 0, end |-> 1], cap.arguments,
                           cap.location, "EverywhereElse"))
    /\ UNCHANGED <<num, cur, fmt, imp, stm, prt, box, prb>>

CapNext == PipelineCapture \/ ExprCapture

SpecCapture == CapInit /\ [][CapNext]_vars

(***************************************************************************)
(* The newlines and trailing commas of a source searched, and the packing  *)
(* of a list decided.  A searched source has a newline, a trailing comma   *)
(* or neither at each of its offsets.  A list has `[` at offset 0, then    *)
(* its content, each offset of it nothing, an item ("x"), its trailing     *)
(* comma, a newline, a blank line or a comment, then `]`; the offset       *)
(* behind `]` may hold the trailing comma of an enclosing list.            *)
(***************************************************************************)
MaxProbe == 4

MaxContent == 5

\* the offsets from..to at which layout has one of the kinds, in order
RECURSIVE LayoutOffsets(_, _, _, _)
LayoutOffsets(layout, kinds, from, to) ==
    IF from > to THEN <<>>
    ELSE (IF layout[from] \in kinds THEN <<from>> ELSE <<>>)
            \o LayoutOffsets(layout, kinds, from + 1, to)

\* the layouts of the content of a list and of the offset behind it: the
\* comma that separates two items takes an offset between them, and the
\* trailing comma is written once, behind the last item
ContentLayouts ==
    {layout \in [1..(MaxContent + 2) -> {"", "x", ",", "newline", "blank", "//"}] :
        /\ layout[MaxContent + 1] = ""
        /\ layout[MaxContent + 2] \in {"", ","}
        /\ \A j, k \in 1..MaxContent :
              (j < k /\ layout[j] = "x" /\ layout[k] = "x")
                => \E s \in (j + 1)..(k - 1) : layout[s] = ""
        /\ \A k \in 1..MaxContent :
              layout[k] = "," =>
                /\ \E j \in 1..(k - 1) : layout[j] = "x"
                /\ \A j \in (k + 1)..MaxContent : layout[j] \notin {"x", ","}}

PrbInit ==
    /\ \/ \E layout \in [0..MaxProbe -> {"", ",", "newline"}] :
             prb = [PrbIdle EXCEPT
                      !.self.new_lines = LayoutOffsets(layout, {"newline"}, 0, MaxProbe),
                      !.self.trailing_commas = LayoutOffsets(layout, {","}, 0, MaxProbe),
                      !.pc = "search"]
       \/ \E layout \in ContentLayouts :
             LET at(kinds) == LayoutOffsets(layout, kinds, 1, MaxContent + 2)
                 elements == at({"x"})
             IN  prb = [PrbIdle EXCEPT
                          !.self.comments = CommentsAt(at({"//"})),
                          !.self.empty_lines = at({"blank"}),
                          !.self.new_lines = at({"newline", "blank"}),
                          !.self.trailing_commas = at({","}),
                          !.items = [i \in 1..Len(elements) |->
                                        [start |-> elements[i], end |-> elements[i] + 1,
                                         can_have_multiple_per_line |-> FALSE]],
                          !.location = [start |-> 0, end |-> MaxContent + 2],
                          !.pc = "pack"]
    /\ num = NumIdle
    /\ cur = CurIdle
    /\ fmt = FmtIdle
    /\ imp = ImpIdle
    /\ stm = StmIdle
    /\ prt = PrtIdle
    /\ box = BoxIdle
    /\ cap = CapIdle

SpansMultipleLines(start, end) ==
    /\ prb.pc = "search"
    /\ prb' = [prb EXCEPT !.start = start, !.end = end,
                          !.found = spans_multiple_lines(prb.self, start, end),
                          !.op = "spans_multiple_lines", !.pc = "done"]
    /\ UNCHANGED <<num, cur, fmt, imp, stm, prt, box, cap>>

HasTrailingComma(start, end) ==
    /\ prb.pc = "search"
    /\ prb' = [prb EXCEPT !.start = start, !.end = end,
                          !.found = has_trailing_comma(prb.self, start, end),
                          !.op = "has_trailing_comma", !.pc = "done"]
    /\ UNCHANGED <<num, cur, fmt, imp, stm, prt, box, cap>>

\* self.items_sequence_packing(elements, tail, can_have_multiple_per_line,
\* *location): the last element is the tail if the list has one, and
\* multiple[i] tells whether item i is a packable primitive
ItemsSequencePacking(has_tail, multiple) ==
    /\ prb.pc = "pack"
    /\ has_tail => prb.items # <<>>
    /\ LET elements == [i \in 1..Len(prb.items) |->
                           [prb.items[i] EXCEPT
                               !.can_have_multiple_per_line = multiple[i]]]
           items == IF has_tail THEN SubSeq(elements, 1, Len(elements) - 1)
                    ELSE elements
           tail == IF has_tail THEN Some(elements[Len(elements)]) ELSE None
       IN  prb' = [prb EXCEPT
                     !.items = items, !.tail = tail,
                     !.packing = items_sequence_packing(prb.self, items, tail,
                                                        prb.location),
                     !.op = "items_sequence_packing", !.pc = "done"]
    /\ UNCHANGED <<num, cur, fmt, imp, stm, prt, box, cap>>

PrbNext ==
    \/ \E start, end \in 0..MaxProbe : SpansMultipleLines(start, end)
    \/ \E start, end \in 0..MaxProbe : HasTrailingComma(start, end)
    \/ \E has_tail \in BOOLEAN : \E multiple \in [1..Len(prb.items) -> BOOLEAN] :
          ItemsSequencePacking(has_tail, multiple)

SpecProbe == PrbInit /\ [][PrbNext]_vars

(***************************************************************************)
(* The literals the lexer hands to the formatter.                          *)
(***************************************************************************)
Digits == {"0", "1"}

\* the digits d with an underscore after digit i when mask[i]
RECURSIVE Interleave(_, _, _)
Interleave(d, mask, i) ==
    IF i > Len(d) THEN <<>>
    ELSE IF i < Len(d) /\ mask[i]
         THEN <<d[i], "_">> \o Interleave(d, mask, i + 1)
         ELSE <<d[i]>> \o Interleave(d, mask, i + 1)

\* digit runs of exactly n digits, underscores only between two digits
Runs(n) ==
    {Interleave(d, mask, 1) : d \in [1..n -> Digits], mask \in [1..(n - 1) -> BOOLEAN]}

RunsUpTo(n) == UNION {Runs(k) : k \in 1..n}

Signs == {<<>>, <<"-">>}

DecimalLiterals == {s \o r : s \in Signs, r \in RunsUpTo(MaxDigits)}

PrefixedLiterals ==
    {<<"0", p>> \o d : p \in {"x", "b", "o"},
                       d \in UNION {[1..k -> Digits] : k \in 1..MaxDigits}}

IntLiterals == DecimalLiterals \cup PrefixedLiterals

Ones(n) == [i \in 1..n |-> "1"]

Exponents == {<<>>, <<"e", "1">>, <<"e", "-", "1", "0">>}

\* the integer part of a float: ones, plain or an underscore after each
IntegerParts ==
    {Interleave(Ones(n), [i \in 1..(n - 1) |-> u], 1) :
        n \in 1..MaxFloatInt, u \in BOOLEAN}

FloatLiterals ==
    {s \o i \o <<".">> \o f \o x :
        s \in Signs, i \in IntegerParts,
        f \in RunsUpTo(MaxFrac) \cup {<<>>}, x \in Exponents}

(***************************************************************************)
(* The numeric formatter as a state machine.                               *)
(***************************************************************************)
NumInit ==
    \E k \in {"int", "float"}, v \in IntLiterals \cup FloatLiterals :
        /\ (k = "int") <=> (v \in IntLiterals)
        /\ cur = CurIdle
        /\ fmt = FmtIdle
        /\ imp = ImpIdle
        /\ stm = StmIdle
        /\ prt = PrtIdle
        /\ box = BoxIdle
        /\ cap = CapIdle
        /\ prb = PrbIdle
        /\ num = [kind |-> k, value |-> v, out |-> <<>>, pc |-> "lexed"]

FormatInt ==
    /\ num.pc = "lexed" /\ num.kind = "int"
    /\ num' = [num EXCEPT !.out = int(num.value), !.pc = "printed"]
    /\ UNCHANGED <<cur, fmt, imp, stm, prt, box, cap, prb>>

FormatFloat ==
    /\ num.pc = "lexed" /\ num.kind = "float"
    /\ num' = [num EXCEPT !.out = float(num.value), !.pc = "printed"]
    /\ UNCHANGED <<cur, fmt, imp, stm, prt, box, cap, prb>>

NumNext == FormatInt \/ FormatFloat

SpecNumeric == NumInit /\ [][NumNext]_vars

(***************************************************************************)
(* Numeric literals: what the rules say, written without the loop.         *)
(***************************************************************************)
StripUnderscores(s) == SelectSeq(s, LAMBDA c : c # "_")

SignOf(value) == IF StartsWith(value, <<"-">>) THEN <<"-">> ELSE <<>>

\* the digits of a decimal literal, without sign and underscores
DigitsOf(value) ==
    StripUnderscores(SubSeq(value, Len(SignOf(value)) + 1, Len(value)))

\* d with one underscore before every complete group of three from the right
RECURSIVE GroupThree(_)
GroupThree(d) ==
    IF Len(d) <= 3 THEN d
    ELSE GroupThree(SubSeq(d, 1, Len(d) - 3))
            \o <<"_">> \o SubSeq(d, Len(d) - 2, Len(d))

\* the integer rule with the threshold of `threshold` digits
IntegerRule(value, threshold) ==
    IF Len(DigitsOf(value)) >= threshold
    THEN SignOf(value) \o GroupThree(DigitsOf(value))
    ELSE SignOf(value) \o DigitsOf(value)

\* no underscore first, last, doubled or next to the sign
WellPlacedUnderscores(out) ==
    /\ out # <<>>
    /\ out[1] # "_"
    /\ out[Len(out)] # "_"
    /\ \A i \in 1..(Len(out) - 1) :
          ~(out[i] = "_" /\ out[i + 1] = "_") /\ ~(out[i] = "-" /\ out[i + 1] = "_")

IntPrinted == num.pc = "printed" /\ num.kind = "int"

FloatPrinted == num.pc = "printed" /\ num.kind = "float"

\* C8: a re-underscored decimal integer is its sign followed by its digits in
\* groups of three from the right, whatever underscores the input had; a
\* 5-digit literal is re-underscored with or without sign; the output has no
\* underscore first, last, next to the sign or doubled.
C8_GroupsOfThree ==
    (IntPrinted /\ num.value \in DecimalLiterals) =>
        /\ (num.out # StripUnderscores(num.value) \/ Len(DigitsOf(num.value)) = 5)
              => num.out = SignOf(num.value) \o GroupThree(DigitsOf(num.value))
        /\ WellPlacedUnderscores(num.out)

C8_Witness ==
    /\ IntPrinted
    /\ num.value = <<"-", "1", "_", "0", "_", "0", "0", "_", "0", "0", "0">>
    /\ num.out = <<"-", "1", "_", "0", "0", "0", "_", "0", "0", "0">>

\* C9 as stated: a decimal integer is re-underscored iff it has at least 5
\* digits when non-negative and at least 6 digits when negative, and is
\* otherwise only stripped of underscores; 0x, 0b, 0o literals are unchanged.
C9_SixDigitsWhenNegative ==
    IntPrinted =>
        IF num.value \in DecimalLiterals
        THEN num.out = IntegerRule(num.value,
                          IF SignOf(num.value) = <<>> THEN 5 ELSE 6)
        ELSE num.out = num.value

\* C9 amended: a decimal integer is re-underscored iff it has at least 5
\* digits, negative or not (the threshold of 6 counts the sign), and is
\* otherwise only stripped of underscores; 0x, 0b, 0o literals are unchanged.
C9_FiveDigits ==
    IntPrinted =>
        IF num.value \in DecimalLiterals
        THEN num.out = IntegerRule(num.value, 5)
        ELSE num.out = num.value

C9_Witness ==
    /\ IntPrinted
    /\ num.value = <<"-", "1", "0", "0", "0", "0">>
    /\ num.out = <<"-", "1", "0", "_", "0", "0", "0">>

IntegerPartOf(value) == SubSeq(value, 1, Position(value, ".") - 1)

\* the text between the dot and the exponent
FractionOf(value) ==
    LET rest == SubSeq(value, Position(value, ".") + 1, Len(value))
    IN  SubSeq(rest, 1, Position(rest, "e") - 1)

ExponentOf(value) ==
    LET rest == SubSeq(value, Position(value, ".") + 1, Len(value))
    IN  SubSeq(rest, Position(rest, "e"), Len(rest))

\* C10: the fractional part of a float is normalised by the integer rule as
\* the integer part is: its underscores are erased and its digits regrouped
\* or stripped as for a decimal integer.
C10_FractionByIntegerRule ==
    FloatPrinted =>
        LET fraction == TrimEndMatches(StripUnderscores(FractionOf(num.value)), "0")
        IN  /\ IntegerPartOf(num.out) = IntegerRule(IntegerPartOf(num.value), 5)
            /\ FractionOf(num.out) =
                  IF fraction = <<>> THEN <<"0">> ELSE IntegerRule(fraction, 5)

(***************************************************************************)
(* The cursor popped with arbitrary limits.                                *)
(***************************************************************************)
StrictlyIncreasing(offsets) ==
    \A i \in 1..(Len(offsets) - 1) : offsets[i] < offsets[i + 1]

\* C2: whatever the limits of the pops, every `//` comment is returned by
\* exactly one pop, none twice and none skipped, in increasing order of start
\* offset; every returned comment is printed; after the final
\* pop_comments(u32::MAX) of module() all of them have been.
C2_EveryCommentPoppedAndPrintedOnce ==
    /\ cur.returned \o cur.self.comments = cur.input
    /\ StrictlyIncreasing([i \in 1..Len(cur.returned) |-> cur.returned[i].start])
    /\ cur.printed = Contents(cur.returned)
    /\ cur.pc = "done" => cur.printed = Contents(cur.input)

\* two comments were returned by two different pops, the last one module()'s
C2_Witness ==
    /\ cur.pc = "done"
    /\ Len(cur.input) >= 2
    /\ Len(CommentsOf(cur.doc)) = 1
    /\ Len(cur.printed) = Len(cur.input)


(***************************************************************************)
(* Formatter::module and pretty.                                           *)
(***************************************************************************)
ModuleDone == fmt.pc = "done"

\* C1: pretty is idempotent: formatting the text pretty has written gives
\* the same text again.
C1_PrettyIdempotent ==
    (ModuleDone /\ fmt.pass = 2) => pretty_print(fmt.out) = fmt.first

\* the newlines a document ends with
RECURSIVE TrailingNewlines(_)
TrailingNewlines(doc) ==
    IF doc = <<>> \/ doc[Len(doc)].t # "line" THEN 0
    ELSE doc[Len(doc)].n + TrailingNewlines(SubSeq(doc, 1, Len(doc) - 1))

\* C3: the document of module() ends with exactly one newline, whichever of
\* its four sections are empty.
C3_EndsWithOneNewline == ModuleDone => TrailingNewlines(fmt.out) = 1

ImportPositions(doc) == {i \in 1..Len(doc) : doc[i].t = "import"}

\* the imports that start at a and b > a are in one group: every definition
\* from the one after a to b is an import at which no group was started
SameGroup(a, b) ==
    \A k \in 1..Len(fmt.definitions) :
        (a < fmt.definitions[k].start /\ fmt.definitions[k].start <= b)
            => /\ fmt.definitions[k].is_import
               /\ fmt.definitions[k].start \notin fmt.started

InOneGroup(x, y) == IF x < y THEN SameGroup(x, y) ELSE SameGroup(y, x)

\* C5: of two imports of one group the one printed first has a module path
\* <= that of the other, and of two with equal paths the one printed first
\* is the first in the source.
C5_GroupSortedStably ==
    ModuleDone =>
        \A i, j \in ImportPositions(fmt.out) :
            (i < j /\ InOneGroup(fmt.out[i].id, fmt.out[j].id))
                => /\ cmp_le(fmt.out[i].module, fmt.out[j].module)
                   /\ fmt.out[i].module = fmt.out[j].module
                        => fmt.out[i].id < fmt.out[j].id

\* a group of three: two imports of one path in their source order, printed
\* above an import that the source has first
C5_Witness ==
    /\ ModuleDone
    /\ \E i, j, k \in ImportPositions(fmt.out) :
          /\ i < j /\ j < k
          /\ InOneGroup(fmt.out[i].id, fmt.out[k].id)
          /\ InOneGroup(fmt.out[i].id, fmt.out[j].id)
          /\ fmt.out[i].module = fmt.out[j].module
          /\ fmt.out[i].module # fmt.out[k].module
          /\ fmt.out[k].id < fmt.out[i].id

\* the offsets of the blank lines and of the `//` comments of a source
ExtrasOf(source) ==
    {parse_module(source).empty_lines[i] :
        i \in 1..Len(parse_module(source).empty_lines)}
    \cup {parse_module(source).comments[i].start :
            i \in 1..Len(parse_module(source).comments)}

\* C6: an import that follows an import starts a new group if and only if
\* the source has a blank line or a `//` comment between the two.
C6_NewGroupIffExtraBetween ==
    ModuleDone =>
        \A k \in 2..Len(fmt.definitions) :
            (fmt.definitions[k - 1].is_import /\ fmt.definitions[k].is_import)
                => (fmt.definitions[k].start \in fmt.started
                      <=> \E e \in ExtrasOf(fmt.source) :
                             /\ fmt.definitions[k - 1].end <= e
                             /\ e < fmt.definitions[k].start)

(***************************************************************************)
(* The alias of an import.                                                 *)
(***************************************************************************)
\* the text after the last `/` of a path
SegmentAfterLastSlash(module) ==
    LET slashes == {i \in 1..Len(module) : module[i] = 47}
        cut == IF slashes = {} THEN 0
               ELSE CHOOSE i \in slashes : \A j \in slashes : j <= i
    IN  SubSeq(module, cut + 1, Len(module))

\* C7: the ` as ` clause is left out exactly when the alias is a variable
\* name equal to the last segment of the module path; any other alias is
\* printed, and an import without alias prints none.
C7_AsClauseOmittedWhenDefault ==
    imp.pc = "printed" =>
        /\ Len(imp.out) = 1
        /\ imp.out[1].as =
              IF imp.import.as_name = None THEN None
              ELSE IF /\ imp.import.as_name[1].variant = "Variable"
                      /\ imp.import.as_name[1].name
                            = SegmentAfterLastSlash(imp.import.module)
              THEN None
              ELSE Some(imp.import.as_name[1].name)

\* `import a/b as b` is printed without its clause
C7_Witness ==
    /\ imp.pc = "printed"
    /\ imp.import.module = <<97, 47, 98>>
    /\ imp.import.as_name = Some(AssignName(<<98>>))
    /\ imp.out[1].as = None

(***************************************************************************)
(* The blank lines between the statements of a block.                      *)
(***************************************************************************)
\* the position in doc of the last token of statement i: its i-th variable
RECURSIVE EndOfStatement(_, _, _)
EndOfStatement(doc, i, from) ==
    IF doc[from].t = "var"
    THEN IF i = 1 THEN from ELSE EndOfStatement(doc, i - 1, from + 1)
    ELSE EndOfStatement(doc, i, from + 1)

\* the position of the first token of the statement that starts after from
RECURSIVE StartOfStatement(_, _)
StartOfStatement(doc, from) ==
    IF doc[from].t \in {"var", "use"} THEN from
    ELSE StartOfStatement(doc, from + 1)

\* the newlines of the tokens first..last of doc
RECURSIVE Newlines(_, _, _)
Newlines(doc, first, last) ==
    IF first > last THEN 0
    ELSE (IF doc[first].t = "line" THEN doc[first].n ELSE 0)
            + Newlines(doc, first + 1, last)

\* the blank lines printed between statement i and the next one
BlankLinesAfter(doc, i) ==
    Newlines(doc, EndOfStatement(doc, i, 1),
             StartOfStatement(doc, EndOfStatement(doc, i, 1) + 1)) - 1

\* C4: in a block without comments, two consecutive statements are a blank
\* line apart when the source has an empty-line offset between the end of
\* the first and the start of the second, and one newline apart when it has
\* none; nothing is printed before the first statement.
C4_BlankLinesKept ==
    (stm.pc = "done" /\ stm.comments = <<>>) =>
        /\ stm.documents[1].t \in {"var", "use"}
        /\ \A i \in 1..(Len(stm.statements) - 1) :
              BlankLinesAfter(stm.documents, i) =
                  IF \E k \in 1..Len(stm.empty_lines) :
                        /\ stm.statements[i].end <= stm.empty_lines[k]
                        /\ stm.empty_lines[k] < stm.statements[i + 1].start
                  THEN 1 ELSE 0

(***************************************************************************)
(* The fractional part of a float.                                         *)
(***************************************************************************)
\* C11: float() removes every trailing zero of the digits between `.` and
\* an optional `e`, prints a single 0 when nothing is left of them, copies
\* the suffix from `e` on unchanged and leaves the printed text in the form
\* <integer part>.<non-empty fraction>[e...].
C11_TrailingZerosTrimmed ==
    FloatPrinted =>
        LET fraction == FractionOf(num.value)
            printed == FractionOf(num.out)
            zeros == {i \in 1..Len(fraction) :
                        \A j \in i..Len(fraction) : fraction[j] = "0"}
        IN  /\ ExponentOf(num.out) = ExponentOf(num.value)
            /\ num.out = IntegerPartOf(num.out) \o <<".">> \o printed
                            \o ExponentOf(num.value)
            /\ printed # <<>>
            /\ IF Cardinality(zeros) = Len(fraction)
               THEN printed = <<"0">>
               ELSE /\ printed = SubSeq(fraction, 1, Len(fraction) - Cardinality(zeros))
                    /\ printed[Len(printed)] # "0"

\* 1.1100 is printed as 1.11
C11_Witness ==
    /\ FloatPrinted
    /\ num.value = <<"1", ".", "1", "1", "0", "0">>
    /\ num.out = <<"1", ".", "1", "1">>

(***************************************************************************)
(* The sections of a module.                                               *)
(***************************************************************************)
\* the tokens of a document that are no line breaks
Printed(doc) == SelectSeq(doc, LAMBDA tok : tok.t # "line")

\* the position in doc of its k-th token that is no line break
RECURSIVE PositionOfPrinted(_, _, _)
PositionOfPrinted(doc, k, from) ==
    IF doc[from].t # "line"
    THEN IF k = 1 THEN from ELSE PositionOfPrinted(doc, k - 1, from + 1)
    ELSE PositionOfPrinted(doc, k, from + 1)

\* the newlines of doc between its k-th printed token and the one after it
NewlinesAfterPrinted(doc, k) ==
    LET between(a, b) ==
            Cardinality({i \in (a + 1)..(b - 1) : doc[i].n = 1})
                + 2 * Cardinality({i \in (a + 1)..(b - 1) : doc[i].n = 2})
    IN  between(PositionOfPrinted(doc, k, 1), PositionOfPrinted(doc, k + 1, 1))

\* the sections of module() that are not empty, in the order of its vec
NonEmptySections == SelectSeq(fmt.sections, LAMBDA doc : ~is_empty(doc))

\* the printed tokens of the first i sections that are not empty
PrintedUpTo(i) == Len(Printed(concat(SubSeq(NonEmptySections, 1, i))))

\* C12: module() emits its sections that are not empty in the order module
\* comments, definitions, leftover doc comments, leftover comments, and any two
\* adjacent ones of them are separated by exactly one blank line.
C12_SectionsOneBlankLineApart ==
    (ModuleDone /\ fmt.pass = 1) =>
        /\ Printed(fmt.out) = Printed(concat(fmt.sections))
        /\ \A i \in 1..(Len(NonEmptySections) - 1) :
              NewlinesAfterPrinted(fmt.out, PrintedUpTo(i)) = 2

(***************************************************************************)
(* The separators of the regions of a module.                              *)
(***************************************************************************)
\* the position in doc of the `import` or `const` of the definition that
\* starts at id
PositionOfDefinition(doc, id) ==
    CHOOSE i \in 1..Len(doc) : doc[i].t \in {"import", "const"} /\ doc[i].id = id

\* the position of the last token of the region that definition k ends: the
\* value of a constant, or the import printed last before definition k + 1
EndOfRegion(doc, k) ==
    IF fmt.definitions[k].is_import
    THEN LET next == PositionOfDefinition(doc, fmt.definitions[k + 1].start)
         IN  CHOOSE i \in 1..next :
                /\ doc[i].t = "import"
                /\ \A j \in (i + 1)..next : doc[j].t # "import"
    ELSE LET const == PositionOfDefinition(doc, fmt.definitions[k].start)
         IN  CHOOSE i \in const..Len(doc) :
                /\ doc[i].t = "int"
                /\ \A j \in const..(i - 1) : doc[j].t # "int"

\* the definitions k after which a region ends and another one follows
RegionEnds ==
    {k \in 1..(Len(fmt.definitions) - 1) :
        ~(fmt.definitions[k].is_import /\ fmt.definitions[k + 1].is_import)}

\* C13: between two consecutive definitions that are no imports, and between
\* a run of imports and a definition next to it, module() puts exactly one
\* lines(2), whatever blank lines the source has there; nothing is put
\* before the first region.
C13_OneSeparatorBetweenRegions ==
    (ModuleDone /\ fmt.pass = 1) =>
        /\ \A k \in RegionEnds :
              LET separated(e) ==
                      /\ fmt.out[e + 1] = [t |-> "line", n |-> 2]
                      /\ fmt.out[e + 2].t # "line"
              IN  separated(EndOfRegion(fmt.out, k))
        /\ fmt.sections[2] # <<>> => fmt.sections[2][1].t # "line"

\* an import, a constant right below it and, below a blank line, another
\* constant
C13_Witness ==
    /\ ModuleDone
    /\ fmt.pass = 1
    /\ fmt.source = <<ImportLine(<<97>>, None, "none"), ConstLine, BlankLine(0), ConstLine>>
    /\ Cardinality(RegionEnds) = 2

(***************************************************************************)
(* The todo below a trailing use.                                          *)
(***************************************************************************)
StatementsDone == stm.pc = "done"

TodoPositions(doc) == {i \in 1..Len(doc) : doc[i].t = "todo"}

\* C15: statements() appends a single line break and `todo` exactly when the
\* last statement is a use: the todo is then the last token, one newline
\* below the use, and no todo is printed after a use that is not the last
\* statement or after a last statement that is no use.
C15_TodoIffLastIsUse ==
    StatementsDone =>
        LET doc == stm.documents
            last == stm.statements[Len(stm.statements)]
        IN  IF last.is_use
            THEN /\ TodoPositions(doc) = {Len(doc)}
                 /\ doc[Len(doc) - 1] = [t |-> "line", n |-> 1]
                 /\ doc[Len(doc) - 2].t = "var"
                 /\ \E i \in 1..(Len(doc) - 3) :
                       /\ doc[i].t = "use"
                       /\ \A j \in (i + 1)..(Len(doc) - 3) : doc[j].t \notin {"use", "var"}
            ELSE TodoPositions(doc) = {}

\* a use that is not the last statement and a use that is
C15_Witness ==
    /\ StatementsDone
    /\ Len(stm.statements) = 3
    /\ stm.statements[1].is_use
    /\ ~stm.statements[2].is_use
    /\ stm.statements[3].is_use
    /\ TodoPositions(stm.documents) # {}

(***************************************************************************)
(* The node a comment is printed above.                                    *)
(***************************************************************************)
\* the start of the definition that follows offset p most closely, if any
NearestFollowing(definitions, p) ==
    LET following == {k \in 1..Len(definitions) : definitions[k].start > p}
    IN  IF following = {} THEN None
        ELSE Some(definitions[CHOOSE k \in following : \A j \in following : k <= j].start)

\* the id of the definition printed next below position i of doc, if any
PrintedBelow(doc, i) ==
    LET below == {j \in (i + 1)..Len(doc) : doc[j].t \in {"import", "const"}}
    IN  IF below = {} THEN None
        ELSE Some(doc[CHOOSE j \in below : \A k \in below : j <= k].id)

\* the comment of the given kind and content is printed in doc above the
\* definition that starts at id, no other definition in between
PrintedAbove(doc, kind, content, id) ==
    \E i \in 1..Len(doc) :
        /\ doc[i].t = kind
        /\ doc[i].c = content
        /\ PrintedBelow(doc, i) = Some(id)

\* C20: every `//` and `///` comment that a definition follows in the source
\* is printed directly above the definition that follows it most closely,
\* also when sorting moves the imports of a group.
C20_CommentAboveNearestFollowingNode ==
    (ModuleDone /\ fmt.pass = 1) =>
        LET parsed == parse_module(fmt.source)
            attached(kind, comments) ==
                \A n \in 1..Len(comments) :
                    LET node == NearestFollowing(parsed.definitions, comments[n].start)
                    IN  node # None =>
                            PrintedAbove(fmt.out, kind, comments[n].content, node[1])
        IN  /\ attached("//", parsed.comments)
            /\ attached("///", parsed.doc_comments)

(***************************************************************************)
(* pretty() on a source that does not parse.                               *)
(***************************************************************************)
\* C17: when the parser rejects the source, pretty() returns the parse
\* error that carries the path, the source text and the parser's error; no
\* formatter is made and nothing is written to the writer.
C17_ParseFailureReturnsError ==
    [][(prt.pc = "parse" /\ ~parse_module_result(prt.src).ok)
        => /\ prt'.pc = "returned"
           /\ prt'.result =
                Some([tag |-> "Parse", path |-> prt.path, src |-> prt.src,
                      error |-> parse_module_result(prt.src).error])
           /\ prt'.writer = prt.writer
           /\ fmt' = FmtIdle]_vars

\* a source whose second line is rejected, the writer holding a line already
C17_Witness ==
    /\ prt.pc = "returned"
    /\ prt.result # None
    /\ prt.result[1].tag = "Parse"
    /\ prt.result[1].error = 2
    /\ prt.writer = <<ConstLine>>

(***************************************************************************)
(* Containers.                                                             *)
(***************************************************************************)
BoxDone == box.pc = "done"

\* the tokens of a document and of the documents inside it, in order
RECURSIVE Flat(_)
Flat(doc) ==
    IF doc = <<>> THEN <<>>
    ELSE (IF Head(doc).t \in {"group", "force_break", "nest", "nest_if_broken",
                              "set_nesting", "next_break_fits"}
          THEN Flat(Head(doc).doc) ELSE <<Head(doc)>>) \o Flat(Tail(doc))

\* some document of doc is force-broken
RECURSIVE ForceBroken(_)
ForceBroken(doc) ==
    \E i \in 1..Len(doc) :
        \/ doc[i].t = "force_break"
        \/ /\ doc[i].t \in {"group", "nest", "nest_if_broken", "set_nesting",
                            "next_break_fits"}
           /\ ForceBroken(doc[i].doc)

\* the items of the container, its tail included
BoxItems == box.items \o box.tail

\* the comments the items of the container do not take: those that start
\* behind the start of its last item
CommentsBeforeClose ==
    {c \in {box.comments[i] : i \in 1..Len(box.comments)} :
        \A k \in 1..Len(BoxItems) : BoxItems[k].start < c}

\* the comment c is printed in doc, and below it nothing but comments, line
\* breaks and the closing delimiter that ends doc
PrintedBeforeClose(doc, c) ==
    \E i \in 1..(Len(doc) - 1) :
        /\ doc[i] = [t |-> "//", c |-> c]
        /\ \A j \in (i + 1)..(Len(doc) - 1) : doc[j].t \in {"//", "line", "break"}
        /\ doc[Len(doc)].t = "text"

\* C14: whatever the container and the number of its items, no comment
\* that starts before its end is left in the cursor when it is formatted;
\* those its items do not take are printed inside it right before its
\* closing delimiter, and it is then force-broken.
C14_CommentsBeforeClosingDelimiter ==
    BoxDone =>
        /\ \A i \in 1..Len(box.self.comments) :
              ~(box.self.comments[i].start < box.location.end)
        /\ \A c \in CommentsBeforeClose : PrintedBeforeClose(Flat(box.document), c)
        /\ CommentsBeforeClose # {} => ForceBroken(box.document)

\* C18: items_sequence_packing answers BreakOnePerLine whenever a blank line
\* of the cursor lies between two consecutive items: at or behind the end of
\* one and before the start of the next, the tail counting as the last item.
C18_BlankLineBetweenItemsBreaks ==
    (BoxDone /\ box.packing # "none") =>
        ((\E e \in {box.empty_lines[i] : i \in 1..Len(box.empty_lines)} :
            \E k \in 1..(Len(BoxItems) - 1) :
                BoxItems[k].end <= e /\ e < BoxItems[k + 1].start)
            => box.packing = "BreakOnePerLine")

\* the k-th item of doc is printed below a blank line: the line break that
\* follows the comma before it
BlankLineAbove(doc, k) ==
    \E i \in 2..Len(doc) :
        /\ doc[i].t = "line"
        /\ doc[i - 1].t = "break"
        /\ Cardinality({j \in 1..i : doc[j].t = "var"}) = k - 1

\* a document that cannot be laid out on one line: one of its documents is
\* force-broken, or it holds a comment, which ends its line
ForcedToBreak(doc) ==
    \/ ForceBroken(doc)
    \/ \E i \in 1..Len(Flat(doc)) : Flat(doc)[i].t = "//"

\* the offsets of the blank lines of the source of the container
BoxBlankLines ==
    {box.self.new_lines[i] : i \in 1..Len(box.self.new_lines)}
        \cap {4 * s : s \in ItemSlots}

\* C19: a tuple and the arguments of a call are packed as a list is: with a
\* trailing comma behind the last item the container is forced to break,
\* and with a blank line between two items it is forced to break and the
\* blank line is kept.
C19_TupleAndCallPackedAsList ==
    (BoxDone /\ box.kind \in {"tuple", "call"}) =>
        /\ box.self.trailing_commas # <<>> => ForcedToBreak(box.document)
        /\ \A k \in 1..(Len(box.items) - 1) :
              (\E e \in BoxBlankLines :
                  box.items[k].end <= e /\ e < box.items[k + 1].start)
                => /\ ForcedToBreak(box.document)
                   /\ BlankLineAbove(Flat(box.document), k + 1)

(***************************************************************************)
(* Function captures.                                                      *)
(***************************************************************************)
CapDone == cap.pc = "done"

\* what is printed of a document: its tokens that are no breaks
PrintedTokens(doc) == SelectSeq(Flat(doc), LAMBDA tok : tok.t # "break")

\* the tokens of an argument: its label, if it has one, and `_` or its value
RECURSIVE ArgumentTokens(_)
ArgumentTokens(arguments) ==
    IF arguments = <<>> THEN <<>>
    ELSE (IF Head(arguments).label = None THEN <<>>
          ELSE text(Head(arguments).label[1]) \o text(": "))
            \o (IF Head(arguments).hole THEN text("_") ELSE <<[t |-> "var"]>>)
            \o ArgumentTokens(Tail(arguments))

\* the function alone, and the function called with arguments
BareFunction == <<[t |-> "var"]>>

FullCall(arguments) ==
    <<[t |-> "var"]>> \o text("(") \o ArgumentTokens(arguments) \o text(")")

\* C16: on the right-hand side of a pipe a capture whose first argument is
\* an unlabelled hole is printed without the hole: as the bare function if
\* the hole is its only argument, else as the call of the arguments that
\* follow, in order.  Anywhere else only the capture whose single argument
\* is an unlabelled hole is printed as the bare function.  Every other
\* capture is printed as the full call, its `_` kept.
C16_CaptureHoleElided ==
    CapDone =>
        LET arguments == cap.arguments
            first == arguments[1]
            printed == PrintedTokens(cap.document)
        IN  IF first.hole /\ first.label = None /\ Len(arguments) = 1
            THEN printed = BareFunction
            ELSE IF first.hole /\ first.label = None
                    /\ cap.position = "RightHandSideOfPipe"
            THEN printed = FullCall(Tail(arguments))
            ELSE printed = FullCall(arguments)

\* f(_, a: x, y) on the right-hand side of a pipe, printed as f(a: x, y)
C16_Witness ==
    /\ CapDone
    /\ cap.position = "RightHandSideOfPipe"
    /\ Len(cap.arguments) = 3
    /\ cap.arguments[1].hole
    /\ cap.arguments[1].label = None
    /\ cap.arguments[2].label = Some("a")
    /\ PrintedTokens(cap.document) = FullCall(Tail(cap.arguments))

(***************************************************************************)
(* The doc comments popped, and the cursors after a pop.                   *)
(***************************************************************************)
\* the entries of a slice with a start offset <= limit, and those behind
UpTo(offsets, limit) == SelectSeq(offsets, LAMBDA o : o <= limit)

Behind(offsets, limit) == SelectSeq(offsets, LAMBDA o : o > limit)

CommentsUpTo(comments, limit) == SelectSeq(comments, LAMBDA c : c.start <= limit)

\* C25: pop_doc_comments returns the doc comments with a start <= limit, in
\* order, and never a blank-line marker, so that doc_comments() prints no
\* unreachable!(); the empty lines with an offset <= limit are taken from
\* the cursor all the same, and the `//` comments are left alone.
C25_DocCommentsPoppedWithoutBlankLines ==
    cur.op = "pop_doc_comments" =>
        /\ \A i \in 1..Len(cur.popped) : cur.popped[i] # None
        /\ cur.popped =
              [i \in 1..Len(CommentsUpTo(cur.before.doc_comments, cur.limit)) |->
                  Some(CommentsUpTo(cur.before.doc_comments, cur.limit)[i].content)]
        /\ \A i \in 1..Len(cur.doc) : cur.doc[i].t \in {"///", "line"}
        /\ Len(SelectSeq(cur.doc, LAMBDA tok : tok.t = "///")) = Len(cur.popped)
        /\ CommentsUpTo(cur.before.doc_comments, cur.limit) \o cur.self.doc_comments
              = cur.before.doc_comments
        /\ cur.self.empty_lines = Behind(cur.before.empty_lines, cur.limit)
        /\ cur.self.comments = cur.before.comments

\* a blank line between two doc comments, all three taken by one pop
C25_Witness ==
    /\ cur.op = "pop_doc_comments"
    /\ Len(cur.popped) = 2
    /\ \E e \in {cur.before.empty_lines[i] : i \in 1..Len(cur.before.empty_lines)} :
          /\ cur.before.doc_comments[1].start < e
          /\ e < cur.before.doc_comments[2].start
          /\ e <= cur.limit
    /\ cur.self.empty_lines = <<>>
    /\ Len(cur.doc) = 4

\* rest is what is left of slice when some of its first entries are taken
IsSuffix(rest, slice) ==
    /\ Len(rest) <= Len(slice)
    /\ rest = SubSeq(slice, Len(slice) - Len(rest) + 1, Len(slice))

\* C27: whatever pops came before and whatever their limits, a pop leaves of
\* the comments, the doc comments and the empty lines a suffix of what the
\* cursor held before it; it takes nothing from a slice whose first entry
\* lies behind its limit; and after pop_comments(limit) neither
\* any_comments(limit) nor any_empty_lines(limit) holds.
C27_CursorsOnlyAdvance ==
    cur.op # "none" =>
        /\ IsSuffix(cur.self.comments, cur.before.comments)
        /\ IsSuffix(cur.self.doc_comments, cur.before.doc_comments)
        /\ IsSuffix(cur.self.empty_lines, cur.before.empty_lines)
        /\ (cur.before.comments # <<>> /\ cur.limit < Head(cur.before.comments).start)
              => cur.self.comments = cur.before.comments
        /\ (cur.before.doc_comments # <<>>
                /\ cur.limit < Head(cur.before.doc_comments).start)
              => cur.self.doc_comments = cur.before.doc_comments
        /\ (cur.before.empty_lines # <<>> /\ cur.limit < Head(cur.before.empty_lines))
              => cur.self.empty_lines = cur.before.empty_lines
        /\ cur.op \in {"pop_comments", "pop_comments_with_position"}
              => /\ ~any_comments(cur.self, cur.limit)
                 /\ ~any_empty_lines(cur.self, cur.limit)

\* a pop_comments with a limit below that of an earlier pop: it takes
\* nothing of the comment and of the empty line still in the cursor
C27_Witness ==
    /\ cur.op = "pop_comments"
    /\ cur.returned # <<>>
    /\ cur.limit < cur.returned[Len(cur.returned)].start
    /\ cur.self.comments # <<>>
    /\ cur.self.empty_lines # <<>>
    /\ cur.self = cur.before

(***************************************************************************)
(* The line breaks printed_comments puts between and after comments.       *)
(***************************************************************************)
\* the k-th of the positions
Kth(positions, k) ==
    CHOOSE i \in positions : Cardinality({j \in positions : j < i}) = k - 1

\* the positions of the comments among the popped entries, and of the
\* comments among the tokens printed of them
PoppedComments == {i \in 1..Len(cur.popped) : cur.popped[i] # None}

PrintedCommentTokens == {i \in 1..Len(cur.doc) : cur.doc[i].t = "//"}

\* between the k-th comment and the next one the document has one token: a
\* newline, or a blank line if an entry between the two is a marker
OneBreakBetween(k) ==
    LET a == Kth(PrintedCommentTokens, k)
        b == Kth(PrintedCommentTokens, k + 1)
        marker == Kth(PoppedComments, k) + 1 < Kth(PoppedComments, k + 1)
    IN  /\ b = a + 2
        /\ cur.doc[a + 1] = [t |-> "line", n |-> IF marker THEN 2 ELSE 1]

\* C29: of the entries a pop_comments returns, printed_comments prints every
\* comment, with exactly one newline between two consecutive ones, or
\* exactly one blank line if a marker lies between them; with
\* trailing_newline = false the document ends with the last comment.
C29_OneBreakBetweenNoneAfter ==
    cur.op = "pop_comments" =>
        /\ Cardinality(PrintedCommentTokens) = Cardinality(PoppedComments)
        /\ \A k \in 1..(Cardinality(PoppedComments) - 1) : OneBreakBetween(k)
        /\ (~cur.trailing_newline /\ cur.doc # <<>>)
              => cur.doc[Len(cur.doc)].t = "//"

(***************************************************************************)
(* The doc comments above the `//` comments before a definition.           *)
(***************************************************************************)
\* the position in doc of the comment of the given kind and content
PositionOfComment(doc, kind, content) ==
    CHOOSE i \in 1..Len(doc) : doc[i].t = kind /\ doc[i].c = content

\* the `//` comment c has doc comments: some `///` comment of the block of
\* c lies above c and below the `//` comment before c, if there is one
HasDocComments(parsed, c) ==
    \E n \in 1..Len(parsed.doc_comments) :
        LET d == parsed.doc_comments[n] IN
        /\ d.start < c.start
        /\ NearestFollowing(parsed.definitions, d.start)
              = NearestFollowing(parsed.definitions, c.start)
        /\ \A m \in 1..Len(parsed.comments) :
              ~(d.start < parsed.comments[m].start
                  /\ parsed.comments[m].start < c.start)

\* the order of the `//` comment c and the `///` comment d of one block is
\* that of the source; a d above c is not attached to the definition
InSourceOrder(doc, parsed, c, d) ==
    LET i == PositionOfComment(doc, "//", c.content)
        j == PositionOfComment(doc, "///", d.content)
    IN  IF d.start < c.start THEN j < i ELSE i < j

\* c is the last `//` comment before the definition that follows it
LastBeforeDefinition(parsed, c) ==
    /\ NearestFollowing(parsed.definitions, c.start) # None
    /\ \A m \in 1..Len(parsed.comments) :
          parsed.comments[m].start > c.start
            => NearestFollowing(parsed.definitions, parsed.comments[m].start)
                  # NearestFollowing(parsed.definitions, c.start)

\* C26: in the block of comments before a definition every `//` comment is
\* printed below the `///` comments of the block that stand above it in
\* the source and above those that stand below it; and when the last `//`
\* comment of the block has doc comments, a blank line follows it.
C26_DocCommentsAboveComment ==
    (ModuleDone /\ fmt.pass = 1) =>
        LET parsed == parse_module(fmt.source) IN
        \A m \in 1..Len(parsed.comments) :
            LET c == parsed.comments[m] IN
            NearestFollowing(parsed.definitions, c.start) # None =>
                /\ \A n \in 1..Len(parsed.doc_comments) :
                      NearestFollowing(parsed.definitions, parsed.doc_comments[n].start)
                            = NearestFollowing(parsed.definitions, c.start)
                        => InSourceOrder(fmt.out, parsed, c, parsed.doc_comments[n])
                /\ (LastBeforeDefinition(parsed, c) /\ HasDocComments(parsed, c))
                      => fmt.out[PositionOfComment(fmt.out, "//", c.content) + 1]
                            = [t |-> "line", n |-> 2]

(***************************************************************************)
(* The groups of imports.                                                  *)
(***************************************************************************)
\* the imports of the source, and the position in doc of the one that
\* starts at id
ImportsOf(definitions) == SelectSeq(definitions, LAMBDA d : d.is_import)

PositionOfImport(doc, id) ==
    CHOOSE i \in 1..Len(doc) : doc[i].t = "import" /\ doc[i].id = id

\* in the source the imports that start at a and b > a are in one group:
\* only imports lie between them, and neither a blank line nor a `//`
\* comment between any import of them and the one before it
SourceGroup(source, a, b) ==
    LET definitions == parse_module(source).definitions IN
    \A k \in 2..Len(definitions) :
        (a < definitions[k].start /\ definitions[k].start <= b)
            => /\ definitions[k].is_import
               /\ definitions[k - 1].is_import
               /\ ~\E e \in ExtrasOf(source) :
                       definitions[k - 1].end <= e /\ e < definitions[k].start

\* in doc the imports at positions i < j are in one group: between them
\* are imports, their doc comments and single newlines only
PrintedGroup(doc, i, j) ==
    \A p \in (i + 1)..(j - 1) :
        \/ doc[p].t \in {"import", "///"}
        \/ doc[p] = [t |-> "line", n |-> 1]

\* C28: imports() prints every import once; two imports are printed in one
\* group exactly when the source has them in one group, and groups in
\* their source order; the `//` comments before a group are printed once,
\* above its imports and below those of the groups before it; and between
\* the last import of a group and what is printed of the next one there is
\* exactly one blank line.
C28_ImportsPermutedWithinGroups ==
    (ModuleDone /\ fmt.pass = 1) =>
        LET parsed == parse_module(fmt.source)
            imports_ == ImportsOf(parsed.definitions)
            at(k) == PositionOfImport(fmt.out, imports_[k].start)
        IN  /\ Cardinality(ImportPositions(fmt.out)) = Len(imports_)
            /\ \A k \in 1..Len(imports_) :
                  \E i \in ImportPositions(fmt.out) : fmt.out[i].id = imports_[k].start
            /\ \A k, l \in 1..Len(imports_) :
                  k < l =>
                    IF SourceGroup(fmt.source, imports_[k].start, imports_[l].start)
                    THEN IF at(k) < at(l) THEN PrintedGroup(fmt.out, at(k), at(l))
                         ELSE PrintedGroup(fmt.out, at(l), at(k))
                    ELSE /\ at(k) < at(l)
                         /\ ~PrintedGroup(fmt.out, at(k), at(l))
                         /\ \E p \in (at(k) + 1)..(at(l) - 1) :
                               fmt.out[p] = [t |-> "line", n |-> 2]
            /\ \A m \in 1..Len(parsed.comments) :
                  \A l \in 1..Len(imports_) :
                      NearestFollowing(parsed.definitions, parsed.comments[m].start)
                            = Some(imports_[l].start)
                        => LET c == PositionOfComment(fmt.out, "//",
                                                      parsed.comments[m].content)
                           IN  /\ Cardinality({i \in 1..Len(fmt.out) :
                                     /\ fmt.out[i].t = "//"
                                     /\ fmt.out[i].c = parsed.comments[m].content}) = 1
                               /\ \A k \in 1..Len(imports_) :
                                     IF k < l /\ ~SourceGroup(fmt.source, imports_[k].start,
                                                              imports_[l].start)
                                     THEN at(k) < c
                                     ELSE k < l \/ c < at(k)
            /\ \A i \in ImportPositions(fmt.out) :
                  (i + 1 < Len(fmt.out) /\ fmt.out[i + 1] # [t |-> "line", n |-> 1])
                      => /\ fmt.out[i + 1] = [t |-> "line", n |-> 2]
                         /\ fmt.out[i + 2].t # "line"

(***************************************************************************)
(* Numeric literals formatted twice.                                       *)
(***************************************************************************)
\* C30: int applied to the text int has printed gives that text again, and
\* float applied to the text float has printed gives that text again,
\* whatever underscores the literal has between its digits.
C30_NumericIdempotent ==
    /\ IntPrinted => int(num.out) = num.out
    /\ FloatPrinted => float(num.out) = num.out

\* -1_1_1_1_1.1_00e1 is printed as -11_111.1_e1, and that text as itself
C30_Witness ==
    /\ FloatPrinted
    /\ num.value = <<"-", "1", "_", "1", "_", "1", "_", "1", "_", "1", ".",
                     "1", "_", "0", "0", "e", "1">>
    /\ num.out = <<"-", "1", "1", "_", "1", "1", "1", ".", "1", "_", "e", "1">>
    /\ float(num.out) = num.out

(***************************************************************************)
(* The searches of new_lines and trailing_commas.                          *)
(***************************************************************************)
\* some offset of the slice lies in the half-open interval [start, end)
InHalfOpen(offsets, start, end) ==
    \E i \in 1..Len(offsets) : start <= offsets[i] /\ offsets[i] < end

\* C22: spans_multiple_lines(start, end) is true if and only if a newline
\* offset n has start <= n < end, whatever the sorted slice of newlines and
\* whatever start and end.
C22_SpansIffNewlineInHalfOpen ==
    prb.op = "spans_multiple_lines" =>
        (prb.found <=> InHalfOpen(prb.self.new_lines, prb.start, prb.end))

\* C23: has_trailing_comma(start, end) is true if and only if a trailing
\* comma offset c has start <= c < end: a comma at start counts, a comma
\* at end does not.
C23_CommaIffInHalfOpen ==
    prb.op = "has_trailing_comma" =>
        (prb.found <=> InHalfOpen(prb.self.trailing_commas, prb.start, prb.end))

(***************************************************************************)
(* The packing of the items of a list.                                     *)
(***************************************************************************)
\* the items of the list asked about, its tail included
PrbElements == prb.items \o prb.tail

\* a blank line lies between two consecutive items
BlankLineSeparatesItems ==
    \E k \in 1..(Len(PrbElements) - 1) :
        InHalfOpen(prb.self.empty_lines, PrbElements[k].end, PrbElements[k + 1].start)

\* a trailing comma follows the last item, or the tail, before the end of
\* the list
CommaBehindLastItem ==
    /\ PrbElements # <<>>
    /\ InHalfOpen(prb.self.trailing_commas, PrbElements[Len(PrbElements)].end,
                  prb.location.end)

\* two consecutive items have no newline between them
TwoItemsOnOneLine ==
    \E k \in 1..(Len(prb.items) - 1) :
        ~InHalfOpen(prb.self.new_lines, prb.items[k].end, prb.items[k + 1].start)

\* C21: with no blank line between two items, items_sequence_packing
\* answers FitOnePerLine iff no trailing comma follows the last item (or
\* the tail) before the end of the list; else FitMultiplePerLine iff the
\* list has no tail, every item is a packable primitive, two consecutive
\* items have no newline between them and the list spans several lines;
\* else BreakOnePerLine.  The comments of the cursor do not change the
\* answer.
C21_PackingDecided ==
    prb.op = "items_sequence_packing" =>
        /\ ~BlankLineSeparatesItems =>
              prb.packing =
                  IF ~CommaBehindLastItem THEN "FitOnePerLine"
                  ELSE IF /\ prb.tail = None
                          /\ \A i \in 1..Len(prb.items) :
                                prb.items[i].can_have_multiple_per_line
                          /\ TwoItemsOnOneLine
                          /\ InHalfOpen(prb.self.new_lines, prb.location.start,
                                        prb.location.end)
                  THEN "FitMultiplePerLine"
                  ELSE "BreakOnePerLine"
        /\ prb.packing =
              items_sequence_packing(
                  [prb.self EXCEPT !.comments = <<>>, !.doc_comments = <<>>],
                  prb.items, prb.tail, prb.location)

\* the documents next_break_fits marks with the mode, in doc and in the
\* documents inside it, in order
RECURSIVE Marked(_, _)
Marked(doc, mode) ==
    IF doc = <<>> THEN <<>>
    ELSE (IF Head(doc).t \in {"group", "force_break", "nest", "nest_if_broken",
                              "set_nesting", "next_break_fits"}
          THEN (IF Head(doc).t = "next_break_fits" /\ Head(doc).mode = mode
                THEN <<Head(doc).doc>> ELSE <<>>) \o Marked(Head(doc).doc, mode)
          ELSE <<>>) \o Marked(Tail(doc), mode)

\* the token an argument's expression is printed as
TokenOf(argument) ==
    IF argument.kind = "Var" THEN [t |-> "var"] ELSE [t |-> "expr", kind |-> argument.kind]

\* the expressions a document prints, in order
Expressions(doc) == SelectSeq(Flat(doc), LAMBDA x : x.t \in {"var", "expr"})

\* the arguments the container's document prints: the first expression of a
\* call is the function called
PrintedArguments ==
    IF box.kind = "call" THEN Tail(Expressions(box.document))
    ELSE Expressions(box.document)

\* a tuple or a call that append_inlinable_wrapped_arguments has formatted
ArgumentsWrapped ==
    /\ BoxDone
    /\ box.kind \in {"tuple", "call"}
    /\ box.kind = "tuple" => box.items # <<>>

LastArgument == box.items[Len(box.items)]

LastArgumentIsBreakable ==
    \/ LastArgument.kind \in {"Fn", "Block", "Case", "List", "Tuple", "BitArray"}
    \/ LastArgument.kind = "Call" /\ Len(box.items) = 1

\* a comment between the argument before the last one, or the opening
\* delimiter, and the last argument
CommentDirectlyBeforeLast ==
    \E i \in 1..Len(box.comments) :
        /\ box.comments[i] < LastArgument.start
        /\ Len(box.items) >= 2 => box.items[Len(box.items) - 1].end <= box.comments[i]

\* a comment before an argument that is not the last one
CommentBeforeEarlierArgument ==
    /\ Len(box.items) >= 2
    /\ \E i \in 1..Len(box.comments) :
          box.comments[i] < box.items[Len(box.items) - 1].start

\* the last argument alone is marked Enabled, the whole group Disabled
LastArgumentMayBreakAlone ==
    /\ Len(box.document) = 1
    /\ box.document[1].t = "group"
    /\ Len(box.document[1].doc) = 1
    /\ box.document[1].doc[1].t = "next_break_fits"
    /\ box.document[1].doc[1].mode = "Disabled"
    /\ Len(Marked(box.document, "Disabled")) = 1
    /\ Len(Marked(box.document, "Enabled")) = 1
    /\ Expressions(Marked(box.document, "Enabled")[1]) = <<TokenOf(LastArgument)>>

\* the arguments are in one ordinary group that marks nothing
ArgumentsBreakUniformly ==
    /\ Len(box.document) = 1
    /\ box.document[1].t = "group"
    /\ Marked(box.document, "Disabled") = <<>>
    /\ Marked(box.document, "Enabled") = <<>>

\* C24: append_inlinable_wrapped_arguments lets the last argument break on
\* its own (it marked Enabled, the whole group Disabled) exactly when there
\* is an argument, the last one is a function, block, case, list, tuple, bit
\* array or the only argument and a call, and no comment lies directly
\* before it; otherwise the arguments are in one ordinary group.  Either
\* way every argument is printed once, in source order.
C24_LastArgumentBreaksAlone ==
    ArgumentsWrapped =>
        /\ PrintedArguments = [i \in 1..Len(box.items) |-> TokenOf(box.items[i])]
        /\ IF /\ box.items # <<>>
              /\ LastArgumentIsBreakable
              /\ ~CommentDirectlyBeforeLast
           THEN LastArgumentMayBreakAlone
           ELSE ArgumentsBreakUniformly

\* a comment before the last argument, wherever it lies among the arguments
CommentBeforeLast ==
    \E i \in 1..Len(box.comments) : box.comments[i] < LastArgument.start

\* C24 (amended): the last argument is marked Enabled and the whole group
\* Disabled exactly when there is an argument, the last one is breakable and
\* no comment lies anywhere before it among the arguments, be it directly
\* before it or before an earlier argument; otherwise the arguments are in
\* one ordinary group.  Either way every argument is printed once, in
\* source order.
C24_LastArgumentBreaksAloneIfNoCommentBefore ==
    ArgumentsWrapped =>
        /\ PrintedArguments = [i \in 1..Len(box.items) |-> TokenOf(box.items[i])]
        /\ IF /\ box.items # <<>>
              /\ LastArgumentIsBreakable
              /\ ~CommentBeforeLast
           THEN LastArgumentMayBreakAlone
           ELSE ArgumentsBreakUniformly

\* several arguments, the last one breakable and marked, a comment behind it
C24_Witness ==
    /\ ArgumentsWrapped
    /\ Len(box.items) >= 2
    /\ LastArgumentIsBreakable
    /\ ~CommentBeforeLast
    /\ box.comments # <<>>
    /\ LastArgumentMayBreakAlone

=============================================================================
